---- MODULE Spec2Model ----
(***************************************************************************)
(* Model of the metadata inference engine (src/core/inference.py,          *)
(* class MetadataInferenceEngine) of metadata-remote.                      *)
(*                                                                         *)
(* Conventions                                                             *)
(*   - a Python str is a sequence of one-character strings; the two        *)
(*     non-ASCII delimiter characters are the tokens "U+00B7" (middle dot) *)
(*     and "U+2014" (em dash);                                             *)
(*   - a confidence is kept in tenths (850 stands for 85, 675 for 67.5),   *)
(*     so that the float products x * 0.9 and x * 0.8 stay exact;          *)
(*   - time is counted in whole seconds.                                   *)
(***************************************************************************)
EXTENDS Integers, Sequences, FiniteSets, TLC

(***************************************************************************)
(* Python str primitives                                                   *)
(***************************************************************************)
Digits == {"0", "1", "2", "3", "4", "5", "6", "7", "8", "9"}

UpperLetters ==
  <<"A", "B", "C", "D", "E", "F", "G", "H", "I", "J", "K", "L", "M",
    "N", "O", "P", "Q", "R", "S", "T", "U", "V", "W", "X", "Y", "Z">>

LowerLetters ==
  <<"a", "b", "c", "d", "e", "f", "g", "h", "i", "j", "k", "l", "m",
    "n", "o", "p", "q", "r", "s", "t", "u", "v", "w", "x", "y", "z">>

\* \s of the re module, over the characters the model uses
WhiteSpace == {" "}

\* [\s\-_.] of the track-number patterns
TrackSeparators == WhiteSpace \cup {"-", "_", "."}

\* \w of the re module
WordChars ==
  Digits \cup {UpperLetters[i] : i \in 1..26} \cup {LowerLetters[i] : i \in 1..26}
         \cup {"_"}

LowerChar(c) ==
  IF \E i \in 1..26 : UpperLetters[i] = c
    THEN LowerLetters[CHOOSE i \in 1..26 : UpperLetters[i] = c]
    ELSE c

\* str.lower()
Lower(s) == [i \in 1..Len(s) |-> LowerChar(s[i])]

\* s[a:b] with 1-based inclusive bounds; empty when a > b
Slice(s, a, b) == IF a > b THEN <<>> ELSE SubSeq(s, a, b)

\* s.startswith(p, at): p occurs in s at position at
MatchAt(s, p, at) ==
  /\ at >= 1
  /\ at + Len(p) - 1 <= Len(s)
  /\ \A k \in 1..Len(p) : s[at + k - 1] = p[k]

StartsWith(s, p) == MatchAt(s, p, 1)

\* p in s
Contains(s, p) == \E at \in 1..(Len(s) + 1) : MatchAt(s, p, at)

\* the least and the greatest of a set of positions, 0 for the empty set
Least(S) == IF S = {} THEN 0 ELSE CHOOSE i \in S : \A j \in S : i <= j

Greatest(S) == IF S = {} THEN 0 ELSE CHOOSE i \in S : \A j \in S : i >= j

\* s.find(p, from): least position >= from where p occurs, 0 when none
Find(s, p, from) == Least({at \in from..(Len(s) + 1) : MatchAt(s, p, at)})

\* length of the longest run of characters of chars at the start of s
LeadingRun(s, chars) ==
  Least({i \in 1..(Len(s) + 1) : i > Len(s) \/ s[i] \notin chars}) - 1

\* s.lstrip(chars), s.rstrip(chars), s.strip(chars)
LStripChars(s, chars) == Slice(s, LeadingRun(s, chars) + 1, Len(s))

RStripChars(s, chars) == Slice(s, 1, Greatest({i \in 1..Len(s) : s[i] \notin chars}))

StripChars(s, chars) == RStripChars(LStripChars(s, chars), chars)

\* s.strip()
Strip(s) == StripChars(s, WhiteSpace)

\* s.split(d) for a non-empty delimiter d
RECURSIVE SplitFrom(_, _, _)
SplitFrom(s, d, from) ==
  LET at == Find(s, d, from)
  IN IF at = 0 \/ from > Len(s) + 1
       THEN <<Slice(s, from, Len(s))>>
       ELSE <<Slice(s, from, at - 1)>> \o SplitFrom(s, d, at + Len(d))

Split(s, d) == SplitFrom(s, d, 1)

\* s.split(d, 1)
SplitOnce(s, d) ==
  LET at == Find(s, d, 1)
  IN IF at = 0 THEN <<s>>
     ELSE <<Slice(s, 1, at - 1), Slice(s, at + Len(d), Len(s))>>

IsDigits(s) == \A i \in 1..Len(s) : s[i] \in Digits

\* re.match(r'^\d{1,3}$', s)
IsTrackNumber(s) == Len(s) \in 1..3 /\ IsDigits(s)

\* the concatenation of the sequences of xss
RECURSIVE Concat(_)
Concat(xss) == IF xss = <<>> THEN <<>> ELSE xss[1] \o Concat(Tail(xss))

Min(a, b) == IF a < b THEN a ELSE b

Max(a, b) == IF a > b THEN a ELSE b

\* JSON values met where a str is expected: null (None) and a non-zero number
PyNone == <<"<None>">>

PyNumber == <<"<number>">>

IsStr(v) == v \notin {PyNone, PyNumber}

\* bool(v) for a str, None or a non-zero number
Truthy(v) == v \notin {<<>>, PyNone}

(***************************************************************************)
(* Evidence builder                                                        *)
(*                                                                         *)
(* A file path is the sequence of its components below the root, the file  *)
(* name last: pathlib's parts of an absolute path without the anchor.      *)
(***************************************************************************)
\* Path.name
PathName(path) == path[Len(path)]

\* Path.parent.name
FolderName(path) == IF Len(path) >= 2 THEN path[Len(path) - 1] ELSE <<>>

\* Path.parent.parent.name ('' at the root, which the users read as absent)
ParentFolder(path) == IF Len(path) >= 3 THEN path[Len(path) - 2] ELSE <<>>

\* position of the last "." that pathlib takes as the start of the suffix, or 0
SuffixDot(name) ==
  LET last == Greatest({i \in 1..Len(name) : name[i] = "."})
  IN IF 1 < last /\ last < Len(name) THEN last ELSE 0

\* Path.stem
Stem(name) == IF SuffixDot(name) = 0 THEN name ELSE Slice(name, 1, SuffixDot(name) - 1)

\* sorted(xs, key=lambda x: x['confidence'], reverse=True): stable, descending
InsertAfter(xs, k, x) == SubSeq(xs, 1, k) \o <<x>> \o SubSeq(xs, k + 1, Len(xs))

\* x placed behind the entries of the sorted xs that are no less confident
InsertByConfidence(xs, x) ==
  InsertAfter(xs, Greatest({i \in 1..Len(xs) : xs[i].confidence >= x.confidence}), x)

RECURSIVE SortedByConfidence(_)
SortedByConfidence(xs) ==
  IF xs = <<>> THEN <<>>
  ELSE InsertByConfidence(SortedByConfidence(SubSeq(xs, 1, Len(xs) - 1)), xs[Len(xs)])

Delimiters ==
  << <<" ", "-", " ">>, <<"-">>, <<"_">>, <<"~">>, <<" ", "U+00B7", " ">>,
     <<" ", "U+2014", " ">>, <<".">>, <<" ">> >>

\* _delimiter_confidence, in sixtieths (the quotient valid/len has a
\* denominator of 2..6); 6000 stands for 100
DelimiterConfidence(delimiter, parts) ==
  LET bonus == IF delimiter = <<" ", "-", " ">> THEN 30
               ELSE IF delimiter = <<"-">> THEN 20
               ELSE IF delimiter = <<"_">> THEN 10
               ELSE 0
      valid == Cardinality({i \in 1..Len(parts) : Len(Strip(parts[i])) \in 2..100})
      penalty == IF Len(parts) > 4 THEN (Len(parts) - 4) * 10 ELSE 0
  IN Min(60 * (50 + bonus) + (1200 * valid) \div Len(parts) - 60 * penalty, 6000)

\* re.findall(open ([^close]+) close, s): the bracketed substrings, left to right
RECURSIVE BracketMatchesFrom(_, _, _, _)
BracketMatchesFrom(s, open, close, from) ==
  IF from > Len(s) THEN <<>>
  ELSE IF s[from] # open THEN BracketMatchesFrom(s, open, close, from + 1)
  ELSE LET first == Least({i \in (from + 1)..Len(s) : s[i] = close})
       IN IF first = 0 THEN <<>>
          ELSE IF first = from + 1
            THEN BracketMatchesFrom(s, open, close, from + 1)
            ELSE <<Slice(s, from + 1, first - 1)>>
                   \o BracketMatchesFrom(s, open, close, first + 1)

ParenMatches(s) == BracketMatchesFrom(s, "(", ")", 1)

BracketMatches(s) == BracketMatchesFrom(s, "[", "]", 1)

\* _extract_filename_segments
\* the segment of one delimiter: "if 2 <= len(parts) <= 6"
SplitSegment(delimiter, parts) ==
  IF Len(parts) \in 2..6
    THEN << [parts |-> parts, delimiter |-> delimiter,
             confidence |-> DelimiterConfidence(delimiter, parts)] >>
    ELSE <<>>

\* "for delimiter in delimiters", from the k-th delimiter on
RECURSIVE SplitSegments(_, _)
SplitSegments(name, k) ==
  IF k > Len(Delimiters) THEN <<>>
  ELSE SplitSegment(Delimiters[k], Split(name, Delimiters[k])) \o SplitSegments(name, k + 1)

\* the segments of the parenthetical and bracketed contents
BracketSegments(inner) ==
  [i \in 1..Len(inner) |->
     [parts |-> <<inner[i]>>, delimiter |-> <<"parenthetical">>, confidence |-> 3600]]

\* _extract_filename_segments, of the name without its suffix
StemSegments(name) ==
  SortedByConfidence(SplitSegments(name, 1)
                     \o BracketSegments(ParenMatches(name) \o BracketMatches(name)))

\* _extract_filename_segments
ExtractFilenameSegments(filename) == StemSegments(Stem(filename))

\* re.match(r'^(\d{1,3})[\s\-_.]+(.+)', fn)
HasTrackPrefix(fn) ==
  LET run == LeadingRun(fn, Digits)
  IN /\ run \in 1..3
     /\ Len(fn) >= run + 2
     /\ fn[run + 1] \in TrackSeparators

\* _analyze_sibling_patterns: the track_pattern it sets ("prefix_number" or
\* "none"); siblings is the list of the sibling file names
AnalyzeSiblingPatterns(siblings, current_file) ==
  LET filenames == SelectSeq(siblings, LAMBDA n : n # current_file)
      all == filenames \o <<current_file>>
      track_matches == Cardinality({i \in 1..Len(all) : HasTrackPrefix(all[i])})
  IN IF siblings # <<>> /\ filenames # <<>> /\ 10 * track_matches > 7 * Len(filenames)
       THEN "prefix_number"
       ELSE "none"

\* _build_evidence_state
BuildEvidenceState(file_path, existing_metadata, siblings) ==
  [ filename |-> PathName(file_path),
    filename_no_ext |-> Stem(PathName(file_path)),
    folder_name |-> FolderName(file_path),
    parent_folder |-> ParentFolder(file_path),
    folder_parts |-> Split(FolderName(file_path), <<"/">>),
    existing_metadata |-> existing_metadata,
    filename_segments |-> ExtractFilenameSegments(PathName(file_path)),
    track_pattern |-> AnalyzeSiblingPatterns(siblings, PathName(file_path)),
    sibling_count |-> Len(siblings) ]

(***************************************************************************)
(* Local inference                                                         *)
(*                                                                         *)
(* A candidate is [value, confidence, source, evidence].  The existing     *)
(* metadata is a record of the fields the engine reads (artist, album,     *)
(* title, albumartist), the empty string standing for an absent field.     *)
(***************************************************************************)
Candidate(value, confidence, source, evidence) ==
  [value |-> value, confidence |-> confidence, source |-> source, evidence |-> evidence]

\* c['value'].lower().strip()
Normalized(v) == Strip(Lower(v))

\* re.sub(pattern, '', s): the text of s with every leftmost non-overlapping
\* match removed, where match_len[i] is the length of the match that starts
\* at i, 0 when none
RemoveMatches(s, match_len) ==
  LET rest[i \in 1..(Len(s) + 1)] ==
        IF i > Len(s) THEN <<>>
        ELSE IF match_len[i] > 0 THEN rest[i + match_len[i]]
        ELSE <<s[i]>> \o rest[i + 1]
  IN rest[1]

\* length of the match of \[? body \]? at i, given the length of the match of
\* the body at i (bare) and at i + 1 (inner), 0 when none
BracketedLen(s, i, bare, inner) ==
  LET open == IF i <= Len(s) /\ s[i] = "[" /\ inner > 0 THEN 1 ELSE 0
      end == i + open + (IF open = 1 THEN inner ELSE bare)
  IN IF end = i THEN 0
     ELSE IF end <= Len(s) /\ s[end] = "]" THEN end + 1 - i ELSE end - i

\* length of the match of lit at i, ignoring case
LiteralLen(s, lit, i) == IF MatchAt(Lower(s), lit, i) THEN Len(lit) ELSE 0

\* match of \[?lit\]? at i, ignoring case
BracketedLiteralLen(s, lit, i) ==
  BracketedLen(s, i, LiteralLen(s, lit, i), LiteralLen(s, lit, i + 1))

DigitsAt(s, at, n) == at + n - 1 <= Len(s) /\ \A k \in 0..(n - 1) : s[at + k] \in Digits

\* length of the match of \d{3,4}kbps at i, ignoring case
KbpsBodyLen(s, at) ==
  IF DigitsAt(s, at, 4) /\ MatchAt(Lower(s), <<"k", "b", "p", "s">>, at + 4) THEN 8
  ELSE IF DigitsAt(s, at, 3) /\ MatchAt(Lower(s), <<"k", "b", "p", "s">>, at + 3) THEN 7
  ELSE 0

\* match of \[?\d{3,4}kbps\]? at i, ignoring case
KbpsLenAt(s, i) == BracketedLen(s, i, KbpsBodyLen(s, i), KbpsBodyLen(s, i + 1))

Lit320Len(s, i) == BracketedLiteralLen(s, <<"3", "2", "0">>, i)

LitFlacLen(s, i) == BracketedLiteralLen(s, <<"f", "l", "a", "c">>, i)

LitMp3Len(s, i) == BracketedLiteralLen(s, <<"m", "p", "3">>, i)

ExplicitParenLen(s, i) ==
  LiteralLen(s, <<"(", "e", "x", "p", "l", "i", "c", "i", "t", ")">>, i)

ExplicitBracketLen(s, i) ==
  LiteralLen(s, <<"[", "e", "x", "p", "l", "i", "c", "i", "t", "]">>, i)

AudioSuffixes ==
  { <<".", "m", "p", "3">>, <<".", "f", "l", "a", "c">>, <<".", "m", "4", "a">>,
    <<".", "w", "a", "v">>, <<".", "w", "m", "a">>, <<".", "w", "v">> }

\* re.sub(r'\.(mp3|flac|m4a|wav|wma|wv)$', '', title, flags=re.IGNORECASE)
DropAudioSuffix(title) ==
  LET hit == {x \in AudioSuffixes :
                Len(x) <= Len(title) /\ MatchAt(Lower(title), x, Len(title) - Len(x) + 1)}
  IN IF hit = {} THEN title
     ELSE Slice(title, 1, Len(title) - Len(CHOOSE x \in hit : TRUE))

\* re.sub(r'^[\d\s\-_.]+', '', title)
DropLeadingNumbering(title) ==
  Slice(title, LeadingRun(title, Digits \cup TrackSeparators) + 1, Len(title))

\* re.sub(r'\s+', ' ', title)
CollapseWhitespace(title) ==
  SelectSeq([i \in 1..Len(title) |->
               IF title[i] \notin WhiteSpace THEN title[i]
               ELSE IF i = 1 \/ title[i - 1] \notin WhiteSpace THEN " "
               ELSE ""],
            LAMBDA c : c # "")

\* the lengths of the matches in s of the k-th of quality_patterns
QualityMatches(s, k) ==
  [i \in 1..Len(s) |->
     CASE k = 1 -> KbpsLenAt(s, i)
       [] k = 2 -> Lit320Len(s, i)
       [] k = 3 -> LitFlacLen(s, i)
       [] k = 4 -> LitMp3Len(s, i)
       [] k = 5 -> ExplicitParenLen(s, i)
       [] k = 6 -> ExplicitBracketLen(s, i)]

\* "for pattern in quality_patterns", from the k-th pattern on
RECURSIVE RemoveMarkersFrom(_, _)
RemoveMarkersFrom(title, k) ==
  IF k > 6 THEN title
  ELSE RemoveMarkersFrom(RemoveMatches(title, QualityMatches(title, k)), k + 1)

\* the six re.sub calls that remove the quality and format markers
RemoveMarkers(title) == RemoveMarkersFrom(title, 1)

\* _clean_title
CleanTitle(title) ==
  Strip(RemoveMarkers(StripChars(CollapseWhitespace(DropLeadingNumbering(
                                                      DropAudioSuffix(title))),
                                 {" ", "-", "_", "."})))

\* length of the match of ^\d{1,3}[\s\-_.]+ at the start of s, 0 when none
TrackPrefixLen(s) ==
  LET run == LeadingRun(s, Digits)
      seps == LeadingRun(Slice(s, run + 1, Len(s)), TrackSeparators)
  IN IF run \in 1..3 /\ seps >= 1 THEN run + seps ELSE 0

\* the candidates _infer_title collects before it cleans them
TitleRawCandidates(es) ==
  LET segs == es.filename_segments
      FromSegment(seg) ==
        LET parts == seg.parts
        IN IF Len(parts) = 2
             THEN IF IsTrackNumber(Strip(parts[1]))
                    THEN << Candidate(Strip(parts[2]), 850, "filename_pattern",
                                      <<"track_number_prefix">>) >>
                    ELSE << Candidate(Strip(parts[2]), 750, "filename_pattern",
                                      <<"two_part_split">>) >>
           ELSE IF Len(parts) >= 3
             THEN IF IsTrackNumber(Strip(parts[1]))
                    THEN << Candidate(Strip(parts[Len(parts)]), 800, "filename_pattern",
                                      <<"track_prefix_multipart">>) >>
                    ELSE << Candidate(Strip(parts[Len(parts)]), 650, "filename_pattern",
                                      <<"last_segment">>) >>
           ELSE <<>>
      RECURSIVE Strategy1(_)
      Strategy1(k) == IF k > Len(segs) THEN <<>> ELSE FromSegment(segs[k]) \o Strategy1(k + 1)
      filename_clean == es.filename_no_ext
      cut == TrackPrefixLen(filename_clean)
      strategy2 ==
        IF cut > 0
          THEN << Candidate(Strip(Slice(filename_clean, cut + 1, Len(filename_clean))), 700,
                            "filename_cleaned", <<"track_number_removed">>) >>
          ELSE <<>>
      artist == es.existing_metadata.artist
      patterns == << artist \o <<" ", "-", " ">>, artist \o <<" ", "U+2014", " ">>,
                     artist \o <<" ", "U+00B7", " ">>, artist \o <<"_">> >>
      hits == {k \in 1..4 : StartsWith(filename_clean, patterns[k])}
      first == CHOOSE k \in hits : \A j \in hits : k <= j
      strategy3 ==
        IF artist # <<>> /\ hits # {}
          THEN << Candidate(Strip(Slice(filename_clean, Len(patterns[first]) + 1,
                                        Len(filename_clean))),
                            900, "artist_removal", <<"known_artist_prefix">>) >>
          ELSE <<>>
  IN Strategy1(1) \o strategy2 \o strategy3

\* "clean = self._clean_title(candidate['value'])" of every candidate
Cleaned(candidates) ==
  [i \in 1..Len(candidates) |->
     [candidates[i] EXCEPT !.value = CleanTitle(candidates[i].value)]]

\* "if clean and clean not in seen", from the k-th candidate on
RECURSIVE UnseenFrom(_, _)
UnseenFrom(candidates, k) ==
  IF k > Len(candidates) THEN <<>>
  ELSE IF /\ candidates[k].value # <<>>
          /\ \A j \in 1..(k - 1) : candidates[j].value # candidates[k].value
    THEN <<candidates[k]>> \o UnseenFrom(candidates, k + 1)
    ELSE UnseenFrom(candidates, k + 1)

\* _infer_title
InferTitle(es) == SortedByConfidence(UnseenFrom(Cleaned(TitleRawCandidates(es)), 1))

NormalizedValues(candidates) ==
  [i \in 1..Len(candidates) |-> Normalized(candidates[i].value)]

\* the candidates of the greatest confidence among those of positions S
MostConfident(candidates, S) ==
  {j \in S : \A k \in S : candidates[j].confidence >= candidates[k].confidence}

\* "if key not in seen or c['confidence'] > seen[key]['confidence']": for every
\* key, in the order of the first appearances from position i on, the first
\* candidate of the highest confidence that has it
RECURSIVE BestPerKey(_, _, _)
BestPerKey(candidates, key, i) ==
  IF i > Len(candidates) THEN <<>>
  ELSE IF \A j \in 1..(i - 1) : key[j] # key[i]
    THEN <<candidates[Least(MostConfident(candidates,
                                          {j \in 1..Len(candidates) : key[j] = key[i]}))]>>
         \o BestPerKey(candidates, key, i + 1)
    ELSE BestPerKey(candidates, key, i + 1)

\* _deduplicate_candidates: one candidate per normalized value, the first of
\* the highest confidence, in the order the values first appear, then sorted
DeduplicateCandidates(candidates) ==
  SortedByConfidence(BestPerKey(candidates, NormalizedValues(candidates), 1))

\* _infer_artist
InferArtist(es) ==
  LET segs == es.filename_segments
      folder_parts == es.folder_parts
      fromFolder ==
        IF folder_parts # <<>>
          THEN (IF Len(folder_parts) >= 2
                  THEN << Candidate(folder_parts[Len(folder_parts) - 1], 800,
                                    "folder_structure", <<"parent_folder">>) >>
                  ELSE <<>>)
               \o (IF es.parent_folder # <<>>
                     THEN << Candidate(es.parent_folder, 750, "folder_structure",
                                       <<"grandparent_folder">>) >>
                     ELSE <<>>)
          ELSE <<>>
      FromSegment(seg) ==
        LET parts == seg.parts
        IN IF Len(parts) >= 2
             THEN (IF ~IsTrackNumber(Strip(parts[1]))
                     THEN << Candidate(Strip(parts[1]), 700, "filename_pattern",
                                       <<"first_segment">>) >>
                     ELSE <<>>)
                  \o (IF Len(parts) >= 3 /\ IsTrackNumber(Strip(parts[1]))
                        THEN << Candidate(Strip(parts[2]), 750, "filename_pattern",
                                          <<"middle_segment_after_track">>) >>
                        ELSE <<>>)
             ELSE <<>>
      RECURSIVE Strategy2(_)
      Strategy2(k) == IF k > Len(segs) THEN <<>> ELSE FromSegment(segs[k]) \o Strategy2(k + 1)
      strategy3 ==
        IF es.existing_metadata.albumartist # <<>>
          THEN << Candidate(es.existing_metadata.albumartist, 850, "existing_metadata",
                            <<"albumartist_fallback">>) >>
          ELSE <<>>
  IN DeduplicateCandidates(fromFolder \o Strategy2(1) \o strategy3)

\* re.match(r'^\d{4}$', s)
IsFourDigits(s) == Len(s) = 4 /\ IsDigits(s)

\* _infer_album
InferAlbum(es) ==
  LET segs == es.filename_segments
      folder_name == es.folder_name
      sep == <<" ", "-", " ">>
      parts == SplitOnce(folder_name, sep)
      artist == es.existing_metadata.artist
      strategy1 ==
        IF folder_name # <<>> /\ folder_name \notin {<<".">>, <<".", ".">>}
          THEN IF Contains(folder_name, sep)
                 THEN IF Len(parts) = 2
                        THEN IF artist # <<>> /\ Lower(parts[1]) = Lower(artist)
                               THEN << Candidate(parts[2], 950, "folder_pattern",
                                                 <<"artist_album_folder">>) >>
                               ELSE << Candidate(parts[2], 800, "folder_pattern",
                                                 <<"two_part_folder">>) >>
                        ELSE <<>>
                 ELSE << Candidate(folder_name, 850, "folder_name", <<"direct_folder">>) >>
          ELSE <<>>
      FromSegment(seg) ==
        IF Len(seg.parts) >= 3
          THEN << Candidate(Strip(seg.parts[(Len(seg.parts) \div 2) + 1]), 600,
                            "filename_pattern", <<"middle_segment">>) >>
          ELSE <<>>
      RECURSIVE Strategy2(_)
      Strategy2(k) == IF k > Len(segs) THEN <<>> ELSE FromSegment(segs[k]) \o Strategy2(k + 1)
      paren == ParenMatches(es.filename)
      RECURSIVE Strategy3(_)
      Strategy3(k) ==
        IF k > Len(paren) THEN <<>>
        ELSE (IF ~IsFourDigits(paren[k])
                THEN << Candidate(paren[k], 550, "parenthetical", <<"parentheses_content">>) >>
                ELSE <<>>) \o Strategy3(k + 1)
  IN DeduplicateCandidates(strategy1 \o Strategy2(1) \o Strategy3(1))

\* match.group(1).lstrip('0') or '0'
StripLeadingZeros(num) == IF LStripChars(num, {"0"}) = <<>> THEN <<"0">> ELSE LStripChars(num, {"0"})

\* [\s\-_] of the fifth track pattern
MiddleSeparators == WhiteSpace \cup {"-", "_"}

\* the candidate of a matched number (<<>> stands for no match), its value
\* being match.group(1).lstrip('0') or '0'
NumberCandidate(num, confidence, source, evidence) ==
  IF num # <<>>
    THEN << Candidate(StripLeadingZeros(num), confidence, source, <<evidence>>) >>
    ELSE <<>>

\* group(1) of re.search(r'^(\d{1,3})[\s\-_.]+', s), <<>> when there is no match
TrackLeading(s) ==
  IF TrackPrefixLen(s) > 0 THEN Slice(s, 1, LeadingRun(s, Digits)) ELSE <<>>

\* group(1) of re.search(r'^(\d{1,3})\s*$', s)
TrackAlone(s) ==
  LET run == LeadingRun(s, Digits)
  IN IF run \in 1..3 /\ \A i \in (run + 1)..Len(s) : s[i] \in WhiteSpace
       THEN Slice(s, 1, run) ELSE <<>>

\* group(1) of re.search(r'^\[(\d{1,3})\]', s)
TrackBracketed(s) ==
  LET run == LeadingRun(Slice(s, 2, Len(s)), Digits)
  IN IF Len(s) >= 3 /\ s[1] = "[" /\ run \in 1..3 /\ run + 2 <= Len(s) /\ s[run + 2] = "]"
       THEN Slice(s, 2, run + 1) ELSE <<>>

\* group(1) of re.search(r'^track[\s_]*(\d{1,3})', s, re.IGNORECASE)
TrackWord(s) ==
  LET rest == Slice(s, 6, Len(s))
      gap == LeadingRun(rest, WhiteSpace \cup {"_"})
      run == LeadingRun(Slice(rest, gap + 1, Len(rest)), Digits)
  IN IF StartsWith(Lower(s), <<"t", "r", "a", "c", "k">>) /\ run >= 1
       THEN Slice(rest, gap + 1, gap + Min(run, 3)) ELSE <<>>

\* the digits of s from position at on
DigitRun(s, at) == LeadingRun(Slice(s, at, Len(s)), Digits)

\* open (\d{1,n}) close matches s at position i, open and close being sets of
\* characters
IsEnclosedAt(s, i, n, open, close) ==
  /\ s[i] \in open
  /\ DigitRun(s, i + 1) \in 1..n
  /\ i + DigitRun(s, i + 1) + 1 <= Len(s)
  /\ s[i + DigitRun(s, i + 1) + 1] \in close

\* the digits enclosed at position first, <<>> when first is 0
Enclosed(s, first) ==
  IF first = 0 THEN <<>> ELSE Slice(s, first + 1, first + DigitRun(s, first + 1))

\* group(1) of re.search(r'[\s\-_](\d{1,3})[\s\-_]', s)
TrackMiddle(s) ==
  Enclosed(s, Least({i \in 1..Len(s) : IsEnclosedAt(s, i, 3, MiddleSeparators,
                                                      MiddleSeparators)}))

\* the dict-based removal of duplicates that ends _infer_track: by exact value
DeduplicateExact(candidates) ==
  SortedByConfidence(BestPerKey(candidates,
                                [i \in 1..Len(candidates) |-> candidates[i].value], 1))

\* _infer_track
InferTrack(es) ==
  LET filename == es.filename_no_ext
      strategy1 ==
        NumberCandidate(TrackLeading(filename), 950, "filename_pattern",
                        "pattern:^(\\d{1,3})[\\s\\-_.]+")
        \o NumberCandidate(TrackAlone(filename), 900, "filename_pattern",
                           "pattern:^(\\d{1,3})\\s*$")
        \o NumberCandidate(TrackBracketed(filename), 850, "filename_pattern",
                           "pattern:^\\[(\\d{1,3})\\]")
        \o NumberCandidate(TrackWord(filename), 850, "filename_pattern",
                           "pattern:^track[\\s_]*(\\d{1,3})")
        \o NumberCandidate(TrackMiddle(filename), 700, "filename_pattern",
                           "pattern:[\\s\\-_](\\d{1,3})[\\s\\-_]")
      strategy2 ==
        IF es.track_pattern = "prefix_number"
          THEN NumberCandidate(TrackLeading(filename), 900, "sibling_pattern",
                               "consistent_numbering")
          ELSE <<>>
  IN DeduplicateExact(strategy1 \o strategy2)

DigitChars == <<"0", "1", "2", "3", "4", "5", "6", "7", "8", "9">>

DigitValue(c) == (CHOOSE n \in 1..10 : DigitChars[n] = c) - 1

\* int(s) for a string of digits
RECURSIVE IntOf(_)
IntOf(s) == IF s = <<>> THEN 0 ELSE 10 * IntOf(SubSeq(s, 1, Len(s) - 1)) + DigitValue(s[Len(s)])

\* datetime.now().year
CurrentYear == 2026

IsWordAt(s, i) == i >= 1 /\ i <= Len(s) /\ s[i] \in WordChars

\* \b before position i of s
WordBoundary(s, i) == IsWordAt(s, i - 1) # IsWordAt(s, i)

\* 19[5-9]\d|20[0-2]\d at position i of s
YearFormAt(s, i) ==
  /\ i + 3 <= Len(s)
  /\ \/ s[i] = "1" /\ s[i + 1] = "9" /\ s[i + 2] \in {"5", "6", "7", "8", "9"}
     \/ s[i] = "2" /\ s[i + 1] = "0" /\ s[i + 2] \in {"0", "1", "2"}
  /\ s[i + 3] \in Digits

\* re.findall(r'\b(19[5-9]\d|20[0-2]\d)\b', s)
YearMatches(s) ==
  LET RECURSIVE From(_)
      From(i) ==
        IF i > Len(s) THEN <<>>
        ELSE IF WordBoundary(s, i) /\ YearFormAt(s, i) /\ WordBoundary(s, i + 4)
          THEN <<Slice(s, i, i + 3)>> \o From(i + 4)
          ELSE From(i + 1)
  IN From(1)

\* re.findall(r'\((\d{4})\)', s)
ParenYearMatches(s) ==
  LET RECURSIVE From(_)
      From(i) ==
        IF i > Len(s) THEN <<>>
        ELSE IF /\ i + 5 <= Len(s)
                /\ s[i] = "("
                /\ IsDigits(Slice(s, i + 1, i + 4))
                /\ s[i + 5] = ")"
          THEN <<Slice(s, i + 1, i + 4)>> \o From(i + 6)
          ELSE From(i + 1)
  IN From(1)

\* _infer_date
InferDate(es) ==
  LET Each(years, confidence, source, evidence) ==
        [i \in 1..Len(years) |-> Candidate(years[i], confidence, source, <<evidence>>)]
      inParens == SelectSeq(ParenYearMatches(es.filename \o <<" ">> \o es.folder_name),
                            LAMBDA y : YearFormAt(y, 1))
      candidates ==
        Each(YearMatches(es.filename), 750, "filename", "year_in_filename")
        \o Each(YearMatches(es.folder_name), 800, "folder_name", "year_in_folder")
        \o Each(inParens, 850, "parenthetical", "year_in_parentheses")
      valid == SelectSeq(candidates,
                         LAMBDA c : 1950 <= IntOf(c.value) /\ IntOf(c.value) <= CurrentYear + 1)
  IN DeduplicateCandidates(valid)

\* _infer_genre
InferGenre(es) == <<>>

\* "for candidate in artist_candidates": confidence * 0.9
InferredAsArtist(artist_candidates) ==
  [i \in 1..Len(artist_candidates) |->
     Candidate(artist_candidates[i].value,
               (artist_candidates[i].confidence * 9) \div 10,
               artist_candidates[i].source,
               artist_candidates[i].evidence \o <<"inferred_as_artist">>)]

\* _infer_albumartist
InferAlbumartist(es) ==
  LET artist == es.existing_metadata.artist
      strategy1 ==
        IF artist # <<>>
          THEN << Candidate(artist, 800, "existing_metadata", <<"artist_as_albumartist">>) >>
          ELSE <<>>
  IN DeduplicateCandidates(strategy1 \o InferredAsArtist(InferArtist(es)))

\* group(1) of re.search(\b word [\s]? (\d{1,2}) \b, s, re.IGNORECASE), where
\* the optional space is part of the pattern when gap holds; <<>> when no match
DiscNumberAt(s, word, gap, i) ==
  IF gap /\ i + Len(word) <= Len(s) /\ s[i + Len(word)] \in WhiteSpace
    THEN i + Len(word) + 1
    ELSE i + Len(word)

IsDiscWordAt(s, word, gap, i) ==
  /\ WordBoundary(s, i)
  /\ MatchAt(Lower(s), word, i)
  /\ DigitRun(s, DiscNumberAt(s, word, gap, i)) \in 1..2
  /\ WordBoundary(s, DiscNumberAt(s, word, gap, i)
                       + DigitRun(s, DiscNumberAt(s, word, gap, i)))

DiscWordGroup(s, at) == IF at = 0 THEN <<>> ELSE Slice(s, at, at + DigitRun(s, at) - 1)

DiscWordFirst(s, word, gap, first) ==
  DiscWordGroup(s, IF first = 0 THEN 0 ELSE DiscNumberAt(s, word, gap, first))

DiscWordMatch(s, word, gap) ==
  DiscWordFirst(s, word, gap, Least({i \in 1..Len(s) : IsDiscWordAt(s, word, gap, i)}))

\* group(1) of re.search(r'\[(\d{1,2})\]', s)
DiscBracketMatch(s) ==
  Enclosed(s, Least({i \in 1..Len(s) : IsEnclosedAt(s, i, 2, {"["}, {"]"})}))

\* _infer_disc
InferDisc(es) ==
  LET texts == <<es.filename_no_ext, es.folder_name>>
      sources == <<"filename",
                   IF es.folder_name = es.filename_no_ext THEN "filename" ELSE "folder">>
      In(k) ==
        NumberCandidate(DiscWordMatch(texts[k], <<"c", "d">>, TRUE), 900, sources[k],
                        "pattern:\\bCD[\\s]?(\\d{1,2})\\b")
        \o NumberCandidate(DiscWordMatch(texts[k], <<"d", "i", "s", "c">>, TRUE), 900,
                           sources[k], "pattern:\\bDisc[\\s]?(\\d{1,2})\\b")
        \o NumberCandidate(DiscWordMatch(texts[k], <<"d", "i", "s", "k">>, TRUE), 900,
                           sources[k], "pattern:\\bDisk[\\s]?(\\d{1,2})\\b")
        \o NumberCandidate(DiscWordMatch(texts[k], <<"d">>, FALSE), 700, sources[k],
                           "pattern:\\bD(\\d{1,2})\\b")
        \o NumberCandidate(DiscBracketMatch(texts[k]), 600, sources[k],
                           "pattern:\\[(\\d{1,2})\\]")
  IN DeduplicateCandidates(Concat([k \in 1..2 |-> In(k)]))

Fields == {"title", "artist", "album", "track", "date", "genre", "albumartist", "disc"}

\* a dispatch that falls back to the title inference for an unknown field
PerformLocalInferenceDefaultTitle(es, field) ==
  CASE field = "title" -> InferTitle(es)
    [] field = "artist" -> InferArtist(es)
    [] field = "album" -> InferAlbum(es)
    [] field = "track" -> InferTrack(es)
    [] field = "date" -> InferDate(es)
    [] field = "genre" -> InferGenre(es)
    [] field = "albumartist" -> InferAlbumartist(es)
    [] field = "disc" -> InferDisc(es)
    [] OTHER -> InferTitle(es)

\* _perform_local_inference
PerformLocalInference(es, field) ==
  CASE field = "title" -> InferTitle(es)
    [] field = "artist" -> InferArtist(es)
    [] field = "album" -> InferAlbum(es)
    [] field = "track" -> InferTrack(es)
    [] field = "date" -> InferDate(es)
    [] field = "genre" -> InferGenre(es)
    [] field = "albumartist" -> InferAlbumartist(es)
    [] field = "disc" -> InferDisc(es)
    [] OTHER -> <<>>

(***************************************************************************)
(* External lookup gate                                                    *)
(***************************************************************************)
\* the gate without its first rule (track and disc are asked about like any
\* other field)
ShouldQueryAnyField(field, local_candidates, existing_metadata) ==
  IF local_candidates = <<>> THEN TRUE
  ELSE IF local_candidates[1].confidence < 700 THEN TRUE
  ELSE field \notin {"track", "disc"}
       /\ (existing_metadata.artist # <<>> \/ existing_metadata.album # <<>>)

\* the gate with the rule of the genre ahead of the rule of the empty local list
ShouldQueryGenreFirst(field, local_candidates, existing_metadata) ==
  IF field \in {"track", "disc"} THEN FALSE
  ELSE IF field = "genre"
    THEN existing_metadata.artist # <<>> \/ existing_metadata.album # <<>>
  ELSE IF local_candidates = <<>> THEN TRUE
  ELSE IF local_candidates[1].confidence < 700 THEN TRUE
  ELSE existing_metadata.artist # <<>> \/ existing_metadata.album # <<>>

\* the gate without the rules of the album, the artist, the title, the
\* albumartist and the composer: a confident local result is queried about
\* for the genre and the date alone
ShouldQueryGenreAndDateOnly(field, local_candidates, existing_metadata) ==
  IF field \in {"track", "disc"} THEN FALSE
  ELSE IF local_candidates = <<>> THEN TRUE
  ELSE IF local_candidates[1].confidence < 700 THEN TRUE
  ELSE IF field = "genre"
    THEN existing_metadata.artist # <<>> \/ existing_metadata.album # <<>>
  ELSE IF field = "date"
    THEN existing_metadata.artist # <<>> /\ existing_metadata.album # <<>>
  ELSE FALSE

\* _should_query_musicbrainz
ShouldQueryMusicbrainz(field, local_candidates, existing_metadata) ==
  IF field \in {"track", "disc"} THEN FALSE
  ELSE IF local_candidates = <<>> THEN TRUE
  ELSE IF local_candidates[1].confidence < 700 THEN TRUE
  ELSE IF field = "genre"
    THEN existing_metadata.artist # <<>> \/ existing_metadata.album # <<>>
  ELSE IF field = "date"
    THEN existing_metadata.artist # <<>> /\ existing_metadata.album # <<>>
  ELSE IF field = "album"
    THEN existing_metadata.artist # <<>> \/ existing_metadata.title # <<>>
  ELSE IF field = "artist"
    THEN existing_metadata.title # <<>> \/ existing_metadata.album # <<>>
  ELSE IF field = "title"
    THEN existing_metadata.artist # <<>> \/ existing_metadata.album # <<>>
  ELSE IF field = "albumartist" THEN existing_metadata.album # <<>>
  ELSE IF field = "composer" THEN existing_metadata.title # <<>>
  ELSE FALSE

(***************************************************************************)
(* External lookup client: the query a call builds, and the mapping of a   *)
(* response to candidates                                                  *)
(*                                                                         *)
(* A query is [kind, a, b]: kind "rec" with (artist, title), "artist" with *)
(* (artist, ''), "release" with (artist, album), "work" with (title, '');  *)
(* NoQuery when the call issues none.                                      *)
(***************************************************************************)
NoQuery == [kind |-> "none", a |-> <<>>, b |-> <<>>]

Query(kind, a, b) == [kind |-> kind, a |-> a, b |-> b]

\* _extract_work_from_filename
ExtractWorkFromFilename(es) ==
  LET segs == es.filename_segments
      RECURSIVE Works(_)
      Works(k) ==
        IF k > Len(segs) THEN <<>>
        ELSE (IF Len(segs[k].parts) >= 2
                THEN <<Strip(segs[k].parts[Len(segs[k].parts)])>> ELSE <<>>) \o Works(k + 1)
  IN Works(1)

\* title_candidates[0]['value'], '' when there is none
FirstValue(candidates) == IF candidates # <<>> THEN candidates[1].value ELSE <<>>

\* work_candidates[0], '' when there is none
FirstWork(work_candidates) == IF work_candidates # <<>> THEN work_candidates[1] ELSE <<>>

\* a recording search with its two arguments in each other's place
RecordingQuerySwapped(artist, title_hint) ==
  IF artist # <<>> /\ title_hint # <<>> THEN Query("rec", title_hint, artist) ELSE NoQuery

\* "if artist and title_hint": self._mb_search_recordings(artist, title_hint)
RecordingQuery(artist, title_hint) ==
  IF artist # <<>> /\ title_hint # <<>> THEN Query("rec", artist, title_hint) ELSE NoQuery

\* "if work_hint": self._mb_search_work(work_hint)
WorkQuery(work_hint) == IF work_hint # <<>> THEN Query("work", work_hint, <<>>) ELSE NoQuery

\* the search that the body of _query_musicbrainz issues after the rate limiter
BuildQuery(es, field, local_candidates) ==
  LET meta == es.existing_metadata
  IN IF field \in {"title", "artist", "album"}
       THEN IF meta.artist # <<>> \/ (local_candidates # <<>> /\ field = "artist")
              THEN RecordingQuery(IF meta.artist = <<>> /\ field = "artist"
                                       /\ local_candidates # <<>>
                                    THEN local_candidates[1].value
                                    ELSE meta.artist,
                                  IF meta.title # <<>> THEN meta.title
                                  ELSE IF field = "title" /\ local_candidates # <<>>
                                    THEN local_candidates[1].value
                                  ELSE FirstValue(InferTitle(es)))
              ELSE NoQuery
     ELSE IF field = "composer"
       THEN WorkQuery(IF meta.title # <<>> THEN meta.title
                      ELSE FirstWork(ExtractWorkFromFilename(es)))
     ELSE IF field = "genre"
       THEN IF meta.artist # <<>> THEN Query("artist", meta.artist, <<>>) ELSE NoQuery
     ELSE IF field = "date"
       THEN IF meta.artist # <<>> /\ meta.album # <<>>
              THEN Query("release", meta.artist, meta.album)
              ELSE NoQuery
     ELSE NoQuery

\* f"rec:{artist}:{title}", f"artist:{artist}", f"release:{artist}:{album}" and
\* f"work:{work_title}": the text whose MD5 digest is the cache key (the digest
\* is taken as injective, the formatting is not)
CacheKey(q) ==
  CASE q.kind = "rec" -> <<"r", "e", "c", ":">> \o q.a \o <<":">> \o q.b
    [] q.kind = "artist" -> <<"a", "r", "t", "i", "s", "t", ":">> \o q.a
    [] q.kind = "release" ->
         <<"r", "e", "l", "e", "a", "s", "e", ":">> \o q.a \o <<":">> \o q.b
    [] q.kind = "work" -> <<"w", "o", "r", "k", ":">> \o q.a

(***************************************************************************)
(* A response body, once parsed, is [shape, recordings, artists, releases]: *)
(* shape "dict" for a JSON object (an absent list is the empty one), shape *)
(* "other" for any other JSON value.  A JSON number-or-null is             *)
(* [null, n]; a JSON string-or-null is a str, PyNone or PyNumber, an       *)
(* absent key being the default the code passes to dict.get.               *)
(***************************************************************************)
JNum(n) == [null |-> FALSE, n |-> n]

JNull == [null |-> TRUE, n |-> 0]

Body(recordings, artists, releases) ==
  [shape |-> "dict", recordings |-> recordings, artists |-> artists, releases |-> releases,
   works |-> <<>>]

\* the body of a work search: a work is its relations, each a type and the
\* name of its artist, and its disambiguation
WorkBody(works) == [Body(<<>>, <<>>, <<>>) EXCEPT !.works = works]

NotADict == [Body(<<>>, <<>>, <<>>) EXCEPT !.shape = "other"]

\* the body a failed search returns: {'recordings': []}, {'artists': []}, ...
EmptyBody == Body(<<>>, <<>>, <<>>)

\* xs[:n]
Take(xs, n) == SubSeq(xs, 1, Min(n, Len(xs)))

\* the candidates of one recording in _extract_mb_candidates; the score is read
\* only where a candidate is built
RecordingCandidates(recording, field) ==
  IF field = "title"
    THEN << Candidate(recording.title, Min(recording.score.n * 10, 900), "musicbrainz",
                      <<"mb_recording">>) >>
  ELSE IF field = "artist"
    THEN IF recording.artist_credit # <<>> /\ Truthy(recording.artist_credit[1])
           THEN << Candidate(recording.artist_credit[1], Min(recording.score.n * 9, 850),
                             "musicbrainz", <<"mb_artist_credit">>) >>
           ELSE <<>>
  ELSE IF field = "album"
    THEN LET releases == Take(recording.releases, 2)
         IN Concat([i \in 1..Len(releases) |->
                      IF Truthy(releases[i])
                        THEN << Candidate(releases[i], Min(recording.score.n * 8, 800),
                                          "musicbrainz", <<"mb_release">>) >>
                        ELSE <<>>])
  ELSE <<>>

\* _extract_mb_candidates
ExtractMbCandidates(mb_data, field) ==
  LET recordings == Take(mb_data.recordings, 3)
  IN Concat([i \in 1..Len(recordings) |-> RecordingCandidates(recordings[i], field)])

\* _extract_mb_candidates raises (min() or * applied to None, .get on a value
\* that is no dict)
ExtractMbCandidatesRaises(mb_data, field) ==
  \/ mb_data.shape # "dict"
  \/ \E i \in 1..Len(Take(mb_data.recordings, 3)) :
       /\ mb_data.recordings[i].score.null
       /\ RecordingCandidates(mb_data.recordings[i], field) # <<>>

\* _extract_mb_genre_candidates
ExtractMbGenreCandidates(mb_data) ==
  LET artists == Take(mb_data.artists, 1)
      TagCandidates(artist) ==
        LET tags == Take(artist.tags, 3)
        IN Concat([i \in 1..Len(tags) |->
                     IF tags[i].count.n > 0
                       THEN << Candidate(tags[i].name, Min(600 + tags[i].count.n * 10, 800),
                                         "musicbrainz", <<"mb_artist_tag">>) >>
                       ELSE <<>>])
  IN Concat([i \in 1..Len(artists) |-> TagCandidates(artists[i])])

\* _extract_mb_genre_candidates raises (None > 0, .get on a value that is no dict)
ExtractMbGenreCandidatesRaises(mb_data) ==
  \/ mb_data.shape # "dict"
  \/ \E i \in 1..Len(Take(mb_data.artists, 1)) :
       \E k \in 1..Len(Take(mb_data.artists[i].tags, 3)) :
         mb_data.artists[i].tags[k].count.null

\* _extract_mb_date_candidates
ExtractMbDateCandidates(mb_data) ==
  LET releases == Take(mb_data.releases, 3)
  IN Concat([i \in 1..Len(releases) |->
               IF Truthy(releases[i].date) /\ Len(releases[i].date) >= 4
                    /\ IsDigits(Take(releases[i].date, 4))
                 THEN << Candidate(Take(releases[i].date, 4), 850, "musicbrainz",
                                   <<"mb_release_date">>) >>
                 ELSE <<>>])

\* _extract_mb_date_candidates raises (re.match on a value that is no str)
ExtractMbDateCandidatesRaises(mb_data) ==
  \/ mb_data.shape # "dict"
  \/ \E i \in 1..Len(Take(mb_data.releases, 3)) : mb_data.releases[i].date = PyNumber

\* [a-zA-Z\s\.] of the disambiguation pattern
ComposerNameChars ==
  {UpperLetters[i] : i \in 1..26} \cup {LowerLetters[i] : i \in 1..26}
    \cup WhiteSpace \cup {"."}

\* re.search(r'by ([A-Z][a-zA-Z\s\.]+)', disambig): the stripped group of the
\* leftmost match, <<>> when there is none
DisambiguationComposer(disambig) ==
  LET at == Least({i \in 1..(Len(disambig) - 4) :
                     /\ MatchAt(disambig, <<"b", "y", " ">>, i)
                     /\ disambig[i + 3] \in {UpperLetters[k] : k \in 1..26}
                     /\ disambig[i + 4] \in ComposerNameChars})
      last == Greatest({e \in (at + 4)..Len(disambig) :
                          \A k \in (at + 4)..e : disambig[k] \in ComposerNameChars})
  IN IF at = 0 THEN <<>> ELSE Strip(SubSeq(disambig, at + 3, last))

\* the first relation of a work whose type is 'composer' and whose artist has
\* a name: its position, 0 when none
ComposerRelation(work) ==
  Least({k \in 1..Len(work.relations) :
           work.relations[k].type = "composer" /\ Truthy(work.relations[k].name)})

\* the loop of _extract_mb_composer_candidates from the i-th work on, with the
\* candidates found so far; raised when re.search got a value that is no str
RECURSIVE ComposerCandidatesFrom(_, _, _)
ComposerCandidatesFrom(works, i, candidates) ==
  IF i > Len(works) THEN [raised |-> FALSE, candidates |-> candidates]
  ELSE IF ComposerRelation(works[i]) # 0
    THEN ComposerCandidatesFrom(works, i + 1,
           Append(candidates,
                  Candidate(works[i].relations[ComposerRelation(works[i])].name, 900,
                            "musicbrainz", <<"mb_work_composer">>)))
  ELSE IF candidates # <<>> \/ ~Truthy(works[i].disambiguation)
    THEN ComposerCandidatesFrom(works, i + 1, candidates)
  ELSE IF ~IsStr(works[i].disambiguation)
    THEN [raised |-> TRUE, candidates |-> candidates]
  ELSE IF DisambiguationComposer(works[i].disambiguation) # <<>>
    THEN ComposerCandidatesFrom(works, i + 1,
           Append(candidates,
                  Candidate(DisambiguationComposer(works[i].disambiguation), 700,
                            "musicbrainz", <<"mb_work_disambiguation">>)))
  ELSE ComposerCandidatesFrom(works, i + 1, candidates)

\* _extract_mb_composer_candidates
ExtractMbComposerCandidates(mb_data) ==
  ComposerCandidatesFrom(Take(mb_data.works, 3), 1, <<>>).candidates

\* _extract_mb_composer_candidates raises (.get on a value that is no dict,
\* re.search on a value that is no str)
ExtractMbComposerCandidatesRaises(mb_data) ==
  \/ mb_data.shape # "dict"
  \/ ComposerCandidatesFrom(Take(mb_data.works, 3), 1, <<>>).raised

\* the candidates _query_musicbrainz returns for the response mb_data to the
\* query it built: what the extraction gives, [] when the extraction raises
\* inside the try block
QueryCandidates(kind, mb_data, field) ==
  CASE kind = "rec" ->
         IF ExtractMbCandidatesRaises(mb_data, field) THEN <<>>
         ELSE ExtractMbCandidates(mb_data, field)
    [] kind = "artist" ->
         IF ExtractMbGenreCandidatesRaises(mb_data) THEN <<>>
         ELSE ExtractMbGenreCandidates(mb_data)
    [] kind = "release" ->
         IF ExtractMbDateCandidatesRaises(mb_data) THEN <<>>
         ELSE ExtractMbDateCandidates(mb_data)
    [] kind = "work" ->
         IF ExtractMbComposerCandidatesRaises(mb_data) THEN <<>>
         ELSE ExtractMbComposerCandidates(mb_data)
    [] OTHER -> <<>>

(***************************************************************************)
(* Synthesis                                                               *)
(***************************************************************************)
\* _synthesize_candidates raises: .lower() of a value that is no str
SynthesizeRaises(local, mb) ==
  \E i \in 1..Len(local \o mb) : ~IsStr((local \o mb)[i].value)

ConsensusBoost(sources) ==
  IF "local" \in sources /\ "musicbrainz" \in sources THEN 150 ELSE 50

\* a synthesis that makes a consensus of every group, the groups of one
\* candidate included
SynthesizedBoostingSingles(all_candidates, group, i) ==
  [value |-> all_candidates[i].value,
   confidence |->
     Min(Greatest({all_candidates[j].confidence : j \in group})
         + ConsensusBoost({all_candidates[j].source : j \in group}), 950),
   source |-> "consensus",
   evidence |-> <<"multiple_sources_agree">>,
   sources |-> {all_candidates[j].source : j \in group},
   agreement_count |-> Cardinality(group)]

\* the candidate that _synthesize_candidates makes of the candidates at the
\* positions group, the first of which is i
Synthesized(all_candidates, group, i) ==
  IF Cardinality(group) > 1
    THEN [value |-> all_candidates[i].value,
          confidence |->
            Min(Greatest({all_candidates[j].confidence : j \in group})
                + ConsensusBoost({all_candidates[j].source : j \in group}), 950),
          source |-> "consensus",
          evidence |-> <<"multiple_sources_agree">>,
          sources |-> {all_candidates[j].source : j \in group},
          agreement_count |-> Cardinality(group)]
    ELSE all_candidates[i]

\* "for normalized, group in value_groups.items()", from position i on; key[j]
\* is the normalized value of the j-th candidate
RECURSIVE SynthesizedFrom(_, _, _)
SynthesizedFrom(all_candidates, key, i) ==
  IF i > Len(all_candidates) THEN <<>>
  ELSE IF \A j \in 1..(i - 1) : key[j] # key[i]
    THEN <<Synthesized(all_candidates, {j \in 1..Len(all_candidates) : key[j] = key[i]}, i)>>
         \o SynthesizedFrom(all_candidates, key, i + 1)
    ELSE SynthesizedFrom(all_candidates, key, i + 1)

\* _synthesize_candidates
SynthesizeCandidates(local, mb) ==
  SynthesizedFrom(local \o mb, NormalizedValues(local \o mb), 1)

(***************************************************************************)
(* Final scoring and filter                                                *)
(***************************************************************************)
\* round(x) of Python 3 for x >= 0 given in tenths: to the nearest integer,
\* a half to the even one
PyRound(tenths) ==
  LET q == tenths \div 10
      r == tenths % 10
  IN IF r < 5 THEN q
     ELSE IF r > 5 THEN q + 1
     ELSE IF q % 2 = 0 THEN q ELSE q + 1

\* "appearances": the places among the file name, the folder and the parent
\* folder that hold the value
Appearances(value_lower, es) ==
  (IF Contains(Lower(es.filename), value_lower) THEN 1 ELSE 0)
  + (IF Contains(Lower(es.folder_name), value_lower) THEN 1 ELSE 0)
  + (IF es.parent_folder # <<>> /\ Contains(Lower(es.parent_folder), value_lower)
       THEN 1 ELSE 0)

\* the boost of the appearances without its cap
ReinforcedUncapped(confidence, appearances) ==
  IF appearances > 1 THEN confidence + appearances * 50 ELSE confidence

\* "if appearances > 1": min(100, confidence + appearances * 5)
Reinforced(confidence, appearances) ==
  IF appearances > 1 THEN Min(confidence + appearances * 50, 1000) ELSE confidence

\* "if field == 'artist' and existing.get('albumartist')": min(100, confidence + 10)
AlbumartistBoosted(confidence, value_lower, es, field) ==
  IF /\ field = "artist"
     /\ es.existing_metadata.albumartist # <<>>
     /\ value_lower = Lower(es.existing_metadata.albumartist)
    THEN Min(confidence + 100, 1000)
    ELSE confidence

\* the confidence _calculate_final_scores stores for one candidate, a whole
\* number of points from here on
FinalConfidence(candidate, es, field) ==
  PyRound(AlbumartistBoosted(Reinforced(candidate.confidence,
                                        Appearances(Lower(candidate.value), es)),
                             Lower(candidate.value), es, field))

\* the final scores without the closing sort
CalculateFinalScoresUnsorted(candidates, es, field) ==
  [i \in 1..Len(candidates) |->
     [candidates[i] EXCEPT !.confidence = FinalConfidence(candidates[i], es, field)]]

\* _calculate_final_scores
CalculateFinalScores(candidates, es, field) ==
  SortedByConfidence([i \in 1..Len(candidates) |->
                        [candidates[i] EXCEPT !.confidence =
                           FinalConfidence(candidates[i], es, field)]])

\* FIELD_THRESHOLDS
FieldThresholds ==
  [artist |-> 70, album |-> 65, title |-> 75, track |-> 80, date |-> 60, genre |-> 55,
   albumartist |-> 65, disc |-> 75, composer |-> 70]

\* self.field_thresholds.get(field, 70)
Threshold(field) == IF field \in DOMAIN FieldThresholds THEN FieldThresholds[field] ELSE 70

\* the filter of the return statement left out
MeetsThresholdSkipped(c, field) == TRUE

\* c['confidence'] >= threshold, where threshold is Threshold(field) / 2
MeetsThreshold(c, field) == 2 * c.confidence >= Threshold(field)

\* the return statement without its [:5]
InferFieldReturnUntruncated(es, field, local_candidates, mb_candidates) ==
  IF SynthesizeRaises(local_candidates, mb_candidates)
    THEN [raised |-> TRUE, list |-> <<>>]
    ELSE [raised |-> FALSE,
          list |-> SelectSeq(CalculateFinalScores(SynthesizeCandidates(local_candidates,
                                                                        mb_candidates),
                                                  es, field),
                             LAMBDA c : MeetsThreshold(c, field))]

\* phases 3 and 4 and the return statement of infer_field:
\* [raised |-> TRUE] when the call raises, else the list returned
InferFieldReturn(es, field, local_candidates, mb_candidates) ==
  IF SynthesizeRaises(local_candidates, mb_candidates)
    THEN [raised |-> TRUE, list |-> <<>>]
    ELSE LET all_candidates == SynthesizeCandidates(local_candidates, mb_candidates)
             final_candidates == CalculateFinalScores(all_candidates, es, field)
         IN [raised |-> FALSE,
             list |-> Take(SelectSeq(final_candidates, LAMBDA c : MeetsThreshold(c, field)), 5)]

(***************************************************************************)
(* The engine as a state machine                                           *)
(*                                                                         *)
(* One engine (cache, cache_lock, mb_last_request) serves the calls of     *)
(* infer_field that the threads make.  A call walks through                *)
(*   idle -> rate_limit -> stamp -> lookup -> send -> in_flight -> store   *)
(*        -> synthesize -> returned                                        *)
(* (or raised), leaving the walk early where the code does.  The lock is   *)
(* held across steps only in the rate limiter, which sleeps holding it;    *)
(* the cache check and the cache write take and release it within a step.  *)
(***************************************************************************)
VARIABLES
  cache,            \* self.cache: key text -> [data, time]
  cache_lock,       \* self.cache_lock: the thread holding it, or "free"
  mb_last_request,  \* self.mb_last_request
  now,              \* time.time()
  pc,               \* per thread: where its call of infer_field stands
  call,             \* per thread: the locals of the call
  wake,             \* per thread: the time at which time.sleep returns at the earliest
  mb_data,          \* per thread: the parsed response, until it is stored
  result,           \* per thread: what infer_field returned
  trail,            \* per thread: what the call has done so far (history)
  sends,            \* the network requests sent, in order (history)
  calls,            \* the number of calls started (history)
  history,          \* history.actions: [action_type, files, is_undone], the id is the position
  response,         \* the response of the last undo or redo request
  last_success      \* per action: the last operation of it that restored a file

\* the variables of the inference engine and of its calls
engine_vars == <<cache, cache_lock, mb_last_request, now, pc, call, wake, mb_data, result,
                 trail, sends, calls>>

\* the variables of the editing history and of its two routes
history_vars == <<history, response, last_success>>

vars == <<engine_vars, history_vars>>

Threads == {"t1", "t2"}

\* MUSICBRAINZ_RATE_LIMIT, in seconds
MUSICBRAINZ_RATE_LIMIT == 1

\* INFERENCE_CACHE_DURATION, in seconds
INFERENCE_CACHE_DURATION == 3600

\* the most calls of infer_field that a behaviour of Spec starts
MaxCalls == 2

\* the most steps that the clock makes
MaxTicks == 1

\* the clock advances by a second or by the cache duration
ClockSteps == {1, INFERENCE_CACHE_DURATION}

\* the clock at construction: mb_last_request = 0 lies at least the rate
\* limit in the past
ClockStart == MUSICBRAINZ_RATE_LIMIT

TicksUsed(time) ==
  ((time - ClockStart) \div INFERENCE_CACHE_DURATION)
  + ((time - ClockStart) % INFERENCE_CACHE_DURATION)

NoMetadata == [artist |-> <<>>, album |-> <<>>, title |-> <<>>, albumartist |-> <<>>]

Input(path, field, meta, siblings) ==
  [path |-> path, field |-> field, meta |-> meta, siblings |-> siblings]

NoCall ==
  [es |-> BuildEvidenceState(<<<<>>>>, NoMetadata, <<>>), field |-> "none",
   local_candidates |-> <<>>, should_query |-> FALSE, query |-> NoQuery,
   mb_candidates |-> <<>>, all_candidates |-> <<>>]

NoTrail ==
  [slept |-> FALSE, stamped |-> FALSE, looked |-> FALSE, hit |-> FALSE, sent |-> FALSE,
   stored |-> FALSE]

NoResult == [raised |-> FALSE, list |-> <<>>]

\* the most actions that a behaviour records in the editing history; it stays
\* below MAX_HISTORY_ITEMS, so that add_action drops no action
MaxActions == 2

\* ActionType, by the values of its members
ActionType ==
  {"metadata_change", "clear_field", "album_art_change", "album_art_delete",
   "batch_metadata", "batch_album_art", "delete_field", "create_field",
   "batch_create_field"}

\* the files of a recorded action: the actions of one file record that file,
\* the batch actions record the files that were changed
OneFile == <<"f1">>
BatchFiles == <<"f1", "f2">>

\* HistoryAction: the fields that undo_action and redo_action read and write
HistoryAction(action_type, files) ==
  [action_type |-> action_type, files |-> files, is_undone |-> FALSE]

\* the actions that the create_..._action functions build
RecordedActions ==
  {HistoryAction(a, OneFile) :
     a \in {"metadata_change", "clear_field", "album_art_change", "album_art_delete",
            "delete_field", "create_field"}}
  \cup {HistoryAction(a, BatchFiles) :
          a \in {"batch_metadata", "batch_album_art", "batch_create_field"}}

\* the ids that a request can name: those of the recorded actions and one
\* that no action has
ActionIds == 1..(MaxActions + 1)

\* history.get_action(action_id): the action of that id, or none; the id of
\* an action is its position in history.actions
GetAction(actions, action_id) ==
  IF action_id \in DOMAIN actions THEN <<actions[action_id]>> ELSE <<>>

\* the files that undo_action and redo_action write for an action: the
\* branches of the handler on action.action_type, which are the same in both
FilesToRestore(action) ==
  IF action.action_type = "metadata_change" THEN {action.files[1]}
  ELSE IF action.action_type = "batch_metadata"
    THEN {action.files[i] : i \in DOMAIN action.files}
  ELSE IF action.action_type \in {"album_art_change", "album_art_delete"}
    THEN {action.files[1]}
  ELSE IF action.action_type = "batch_album_art"
    THEN {action.files[i] : i \in DOMAIN action.files}
  ELSE {}

\* the response of undo_action and redo_action after the writes: code and
\* status
RestoreResponse(files_updated, errors) ==
  IF files_updated = 0 THEN [code |-> 500, status |-> "error"]
  ELSE IF errors # {} THEN [code |-> 200, status |-> "partial"]
  ELSE [code |-> 200, status |-> "success"]

NotFound == [code |-> 404, status |-> "Action not found"]
AlreadyUndone == [code |-> 400, status |-> "Action is already undone"]
NotUndone == [code |-> 400, status |-> "Action is not undone"]
NoResponse == [code |-> 0, status |-> "none"]

Init ==
  /\ cache = [k \in {} |-> [data |-> EmptyBody, time |-> 0]]
  /\ cache_lock = "free"
  /\ mb_last_request = 0
  /\ now = ClockStart
  /\ pc = [t \in Threads |-> "idle"]
  /\ call = [t \in Threads |-> NoCall]
  /\ wake = [t \in Threads |-> 0]
  /\ mb_data = [t \in Threads |-> EmptyBody]
  /\ result = [t \in Threads |-> NoResult]
  /\ trail = [t \in Threads |-> NoTrail]
  /\ sends = <<>>
  /\ calls = 0
  /\ history = <<>>
  /\ response = NoResponse
  /\ last_success = <<>>

\* time passes
Tick ==
  /\ \E d \in ClockSteps :
       /\ TicksUsed(now + d) <= MaxTicks
       /\ now' = now + d
  /\ UNCHANGED <<cache, cache_lock, mb_last_request, pc, call, wake, mb_data, result,
                 trail, sends, calls>>
  /\ UNCHANGED history_vars

\* infer_field, "if self._should_query_musicbrainz(...)": the call goes on to
\* _query_musicbrainz or straight to the synthesis
Gate(t, es, field, local_candidates, should_query) ==
  /\ call' = [call EXCEPT ![t] =
                [es |-> es, field |-> field, local_candidates |-> local_candidates,
                 should_query |-> should_query, query |-> NoQuery,
                 mb_candidates |-> <<>>, all_candidates |-> <<>>]]
  /\ pc' = [pc EXCEPT ![t] = IF should_query THEN "rate_limit" ELSE "synthesize"]

\* infer_field, phase 2
Decide(t, es, field, local_candidates) ==
  Gate(t, es, field, local_candidates,
       ShouldQueryMusicbrainz(field, local_candidates, es.existing_metadata))

\* infer_field, phase 1
InferLocally(t, es, field) == Decide(t, es, field, PerformLocalInference(es, field))

\* a request is served by the first thread that is idle (which of the idle
\* threads serves it makes no difference to the engine)
FirstIdle(t) == ~(t = "t2" /\ pc["t1"] = "idle")

\* infer_field up to the gate: evidence, local inference, _should_query_musicbrainz
Call(t, inputs, limit) ==
  /\ pc[t] = "idle"
  /\ FirstIdle(t)
  /\ calls < limit
  /\ \E in \in inputs :
       InferLocally(t, BuildEvidenceState(in.path, in.meta, in.siblings), in.field)
  /\ calls' = calls + 1
  /\ trail' = [trail EXCEPT ![t] = NoTrail]
  /\ result' = [result EXCEPT ![t] = NoResult]
  /\ UNCHANGED <<cache, cache_lock, mb_last_request, now, wake, mb_data, sends>>
  /\ UNCHANGED history_vars

\* the rate limiter entered without the lock
LockFreeUnchecked == TRUE

\* the lock can be taken
LockFree == cache_lock = "free"

\* a limiter that never sleeps
MustSleepNever(time_since_last) == FALSE

\* time.sleep is due: time_since_last < self.mb_rate_limit
MustSleep(time_since_last) == time_since_last < MUSICBRAINZ_RATE_LIMIT

\* _query_musicbrainz, "with self.cache_lock:" up to time.sleep: takes the
\* lock, reads the clock and decides how long to sleep
EnterRateLimit(t) ==
  /\ pc[t] = "rate_limit"
  /\ LockFree
  /\ cache_lock' = t
  /\ LET time_since_last == now - mb_last_request
     IN /\ wake' = [wake EXCEPT ![t] =
                      IF MustSleep(time_since_last)
                        THEN now + (MUSICBRAINZ_RATE_LIMIT - time_since_last)
                        ELSE now]
        /\ trail' = [trail EXCEPT ![t].slept = MustSleep(time_since_last)]
  /\ pc' = [pc EXCEPT ![t] = "stamp"]
  /\ UNCHANGED <<cache, mb_last_request, now, call, mb_data, result, sends, calls>>
  /\ UNCHANGED history_vars

\* _query_musicbrainz, the body of the try: one of the searches, or none
Search(t, query) ==
  /\ call' = [call EXCEPT ![t].query = query]
  /\ pc' = [pc EXCEPT ![t] = IF query = NoQuery THEN "synthesize" ELSE "lookup"]

\* a limiter that stamps the time and goes on with the lock still held
StampKeepingLock(t) ==
  /\ pc[t] = "stamp"
  /\ now >= wake[t]
  /\ mb_last_request' = now
  /\ Search(t, BuildQuery(call[t].es, call[t].field, call[t].local_candidates))
  /\ trail' = [trail EXCEPT ![t].stamped = TRUE]
  /\ UNCHANGED <<cache, cache_lock, now, wake, mb_data, result, sends, calls>>
  /\ UNCHANGED history_vars

\* _query_musicbrainz, after time.sleep: stamps the time, releases the lock and
\* builds the query
Stamp(t) ==
  /\ pc[t] = "stamp"
  /\ now >= wake[t]
  /\ mb_last_request' = now
  /\ cache_lock' = "free"
  /\ Search(t, BuildQuery(call[t].es, call[t].field, call[t].local_candidates))
  /\ trail' = [trail EXCEPT ![t].stamped = TRUE]
  /\ UNCHANGED <<cache, now, wake, mb_data, result, sends, calls>>
  /\ UNCHANGED history_vars

\* the comparison of the age turned around
IsFreshInverted(cached_time, time) == time - cached_time > INFERENCE_CACHE_DURATION

\* an entry as old as the duration still served
IsFreshInclusive(cached_time, time) == time - cached_time <= INFERENCE_CACHE_DURATION

\* time.time() - cached_time < INFERENCE_CACHE_DURATION
IsFresh(cached_time, time) == time - cached_time < INFERENCE_CACHE_DURATION

\* cache_key in self.cache, and the entry is fresh
CacheHit(key, time) == key \in DOMAIN cache /\ IsFresh(cache[key].time, time)

\* a cache check whose "with self.cache_lock:" block reaches over the request:
\* on a miss the lock stays with the thread
LookupHoldingLock(t) ==
  /\ pc[t] = "lookup"
  /\ LockFree
  /\ LET key == CacheKey(call[t].query)
     IN IF CacheHit(key, now)
          THEN /\ call' = [call EXCEPT ![t].mb_candidates =
                             QueryCandidates(call[t].query.kind, cache[key].data,
                                             call[t].field)]
               /\ pc' = [pc EXCEPT ![t] = "synthesize"]
               /\ trail' = [trail EXCEPT ![t].looked = TRUE, ![t].hit = TRUE]
               /\ UNCHANGED cache_lock
          ELSE /\ pc' = [pc EXCEPT ![t] = "send"]
               /\ trail' = [trail EXCEPT ![t].looked = TRUE]
               /\ cache_lock' = t
               /\ UNCHANGED call
  /\ UNCHANGED <<cache, mb_last_request, now, wake, mb_data, result, sends, calls>>
  /\ UNCHANGED history_vars

\* _mb_search_*: the cache check under "with self.cache_lock:", which takes
\* the lock and gives it back; a hit returns the cached response, which
\* _query_musicbrainz maps to candidates
Lookup(t) ==
  /\ pc[t] = "lookup"
  /\ LockFree
  /\ LET key == CacheKey(call[t].query)
     IN IF CacheHit(key, now)
          THEN /\ call' = [call EXCEPT ![t].mb_candidates =
                             QueryCandidates(call[t].query.kind, cache[key].data,
                                             call[t].field)]
               /\ pc' = [pc EXCEPT ![t] = "synthesize"]
               /\ trail' = [trail EXCEPT ![t].looked = TRUE, ![t].hit = TRUE]
          ELSE /\ pc' = [pc EXCEPT ![t] = "send"]
               /\ trail' = [trail EXCEPT ![t].looked = TRUE]
               /\ UNCHANGED call
  /\ UNCHANGED <<cache, cache_lock, mb_last_request, now, wake, mb_data, result, sends,
                 calls>>
  /\ UNCHANGED history_vars

\* _mb_search_*: urllib.request.urlopen sends the request
Send(t) ==
  /\ pc[t] = "send"
  /\ pc' = [pc EXCEPT ![t] = "in_flight"]
  /\ sends' = Append(sends, [thread |-> t, key |-> CacheKey(call[t].query), at |-> now])
  /\ trail' = [trail EXCEPT ![t].sent = TRUE]
  /\ UNCHANGED <<cache, cache_lock, mb_last_request, now, call, wake, mb_data, result,
                 calls>>
  /\ UNCHANGED history_vars

\* the outcome of a request: a failure (network error, timeout, status, bad
\* JSON) or a parsed body
Failure == [ok |-> FALSE, data |-> EmptyBody]

Success(data) == [ok |-> TRUE, data |-> data]

\* an except branch that puts the empty body it returns in the cache
ReceiveStoringFailure(t, responses) ==
  /\ pc[t] = "in_flight"
  /\ \E r \in responses[call[t].query.kind] :
       IF r.ok
         THEN /\ mb_data' = [mb_data EXCEPT ![t] = r.data]
              /\ pc' = [pc EXCEPT ![t] = "store"]
              /\ UNCHANGED <<call, cache>>
         ELSE /\ call' = [call EXCEPT ![t].mb_candidates =
                            QueryCandidates(call[t].query.kind, r.data, call[t].field)]
              /\ pc' = [pc EXCEPT ![t] = "synthesize"]
              /\ cache' = [k \in DOMAIN cache \cup {CacheKey(call[t].query)} |->
                             IF k = CacheKey(call[t].query)
                               THEN [data |-> r.data, time |-> now]
                               ELSE cache[k]]
              /\ UNCHANGED mb_data
  /\ UNCHANGED <<cache_lock, mb_last_request, now, wake, result, trail, sends, calls>>
  /\ UNCHANGED history_vars

\* an except branch that sends the request again
ReceiveRetrying(t, responses) ==
  /\ pc[t] = "in_flight"
  /\ \E r \in responses[call[t].query.kind] :
       IF r.ok
         THEN /\ mb_data' = [mb_data EXCEPT ![t] = r.data]
              /\ pc' = [pc EXCEPT ![t] = "store"]
         ELSE /\ pc' = [pc EXCEPT ![t] = "send"]
              /\ UNCHANGED mb_data
  /\ UNCHANGED <<cache, cache_lock, mb_last_request, now, call, wake, result, trail, sends,
                 calls>>
  /\ UNCHANGED history_vars

\* _mb_search_*: the request ends; the except branch returns the empty body
Receive(t, responses) ==
  /\ pc[t] = "in_flight"
  /\ \E r \in responses[call[t].query.kind] :
       IF r.ok
         THEN /\ mb_data' = [mb_data EXCEPT ![t] = r.data]
              /\ pc' = [pc EXCEPT ![t] = "store"]
              /\ UNCHANGED call
         ELSE /\ call' = [call EXCEPT ![t].mb_candidates =
                            QueryCandidates(call[t].query.kind, r.data, call[t].field)]
              /\ pc' = [pc EXCEPT ![t] = "synthesize"]
              /\ UNCHANGED mb_data
  /\ UNCHANGED <<cache, cache_lock, mb_last_request, now, wake, result, trail, sends,
                 calls>>
  /\ UNCHANGED history_vars

\* the store with the empty body of the except branch put in the cache in
\* place of the response
StoreEmptyBody(t) ==
  /\ pc[t] = "store"
  /\ LockFree
  /\ LET key == CacheKey(call[t].query)
     IN cache' = [k \in DOMAIN cache \cup {key} |->
                    IF k = key THEN [data |-> EmptyBody, time |-> now] ELSE cache[k]]
  /\ call' = [call EXCEPT ![t].mb_candidates =
                QueryCandidates(call[t].query.kind, mb_data[t], call[t].field)]
  /\ mb_data' = [mb_data EXCEPT ![t] = EmptyBody]
  /\ pc' = [pc EXCEPT ![t] = "synthesize"]
  /\ trail' = [trail EXCEPT ![t].stored = TRUE]
  /\ UNCHANGED <<cache_lock, mb_last_request, now, wake, result, sends, calls>>
  /\ UNCHANGED history_vars

\* _mb_search_*: self.cache[cache_key] = (data, time.time()) under "with
\* self.cache_lock:", then the return of the response, which _query_musicbrainz
\* maps to candidates
Store(t) ==
  /\ pc[t] = "store"
  /\ LockFree
  /\ LET key == CacheKey(call[t].query)
     IN cache' = [k \in DOMAIN cache \cup {key} |->
                    IF k = key THEN [data |-> mb_data[t], time |-> now] ELSE cache[k]]
  /\ call' = [call EXCEPT ![t].mb_candidates =
                QueryCandidates(call[t].query.kind, mb_data[t], call[t].field)]
  /\ mb_data' = [mb_data EXCEPT ![t] = EmptyBody]
  /\ pc' = [pc EXCEPT ![t] = "synthesize"]
  /\ trail' = [trail EXCEPT ![t].stored = TRUE]
  /\ UNCHANGED <<cache_lock, mb_last_request, now, wake, result, sends, calls>>
  /\ UNCHANGED history_vars

\* infer_field returns r.list, or raises
Conclude(t, r) ==
  /\ result' = [result EXCEPT ![t] = r]
  /\ pc' = [pc EXCEPT ![t] = IF r.raised THEN "raised" ELSE "returned"]

\* infer_field, phases 3 and 4 and the return
Finish(t) ==
  /\ pc[t] = "synthesize"
  /\ Conclude(t, InferFieldReturn(call[t].es, call[t].field, call[t].local_candidates,
                                  call[t].mb_candidates))
  /\ call' = [call EXCEPT ![t].all_candidates =
                IF SynthesizeRaises(call[t].local_candidates, call[t].mb_candidates)
                  THEN <<>>
                  ELSE SynthesizeCandidates(call[t].local_candidates,
                                            call[t].mb_candidates)]
  /\ UNCHANGED <<cache, cache_lock, mb_last_request, now, wake, mb_data, trail, sends,
                 calls>>
  /\ UNCHANGED history_vars

\* the caller takes the result (or the exception); the thread is free again
Return(t) ==
  /\ pc[t] \in {"returned", "raised"}
  /\ pc' = [pc EXCEPT ![t] = "idle"]
  /\ call' = [call EXCEPT ![t] = NoCall]
  /\ result' = [result EXCEPT ![t] = NoResult]
  /\ trail' = [trail EXCEPT ![t] = NoTrail]
  /\ wake' = [wake EXCEPT ![t] = 0]
  /\ UNCHANGED <<cache, cache_lock, mb_last_request, now, mb_data, sends, calls>>
  /\ UNCHANGED history_vars

(***************************************************************************)
(* The inputs and the responses that the specifications draw from          *)
(***************************************************************************)
KnownArtist == [NoMetadata EXCEPT !.artist = <<"A", "b">>]

KnownArtistAlbum == [NoMetadata EXCEPT !.artist = <<"A", "b">>, !.album = <<"C", "d">>]

KnownAll ==
  [artist |-> <<"a", "b">>, album |-> <<"C", "d">>, title |-> <<"E", "f">>, albumartist |-> <<"A", "b">>]

KnownAlbumartist == [NoMetadata EXCEPT !.albumartist = <<"A", "b">>]

KnownTitle == [NoMetadata EXCEPT !.title = <<"E", "f">>]

KnownAlbum == [NoMetadata EXCEPT !.album = <<"C", "d">>]

Metadatas ==
  {NoMetadata, KnownArtist, KnownArtistAlbum, KnownAll, KnownAlbumartist, KnownTitle,
   KnownAlbum}

\* /music/Ab/Ab - Cd/03 - Ef.mp3
PathNumbered == <<<<"m", "u", "s", "i", "c">>, <<"A", "b">>, <<"A", "b", " ", "-", " ", "C", "d">>, <<"0", "3", " ", "-", " ", "E", "f", ".", "m", "p", "3">>>>

\* /Ab/Cd/Ab - Ef.mp3
PathArtistTitle == <<<<"A", "b">>, <<"C", "d">>, <<"A", "b", " ", "-", " ", "E", "f", ".", "m", "p", "3">>>>

\* /music/ - Ef.mp3
PathEmptyArtist == <<<<"m", "u", "s", "i", "c">>, <<" ", "-", " ", "E", "f", ".", "m", "p", "3">>>>

\* /Cd (2004)/CD2 - In.mp3
PathDisc == <<<<"C", "d", " ", "(", "2", "0", "0", "4", ")">>, <<"C", "D", "2", " ", "-", " ", "I", "n", ".", "m", "p", "3">>>>

\* /Ab/Ab/Ab - Cd - Ab.mp3
PathRepeated == <<<<"A", "b">>, <<"A", "b">>, <<"A", "b", " ", "-", " ", "C", "d", " ", "-", " ", "A", "b", ".", "m", "p", "3">>>>

\* /music/Rock/Track05.flac
PathTrackWord == <<<<"m", "u", "s", "i", "c">>, <<"R", "o", "c", "k">>, <<"T", "r", "a", "c", "k", "0", "5", ".", "f", "l", "a", "c">>>>

Paths == {PathNumbered, PathArtistTitle, PathEmptyArtist, PathDisc, PathRepeated,
          PathTrackWord}

SiblingLists == { <<>>, <<<<"0", "1", " ", "-", " ", "x", ".", "m", "p", "3">>, <<"0", "2", " ", "-", " ", "y", ".", "m", "p", "3">>>> }

\* the field names a caller passes: the eight fields, composer, and one no
\* part of the engine knows
RequestFields == Fields \cup {"composer", "comment"}

PipelineInputs ==
  {Input(path, field, meta, siblings) :
     path \in Paths, field \in RequestFields, meta \in Metadatas,
     siblings \in SiblingLists}

ConcurrentInputs ==
  {Input(PathNumbered, field, KnownArtistAlbum, <<>>) : field \in {"genre", "title"}}

\* two calls for the title whose known artist and title differ and give one
\* text after "rec:": artist "A", title "b:c", and artist "A:b", title "c"
KeyInputs ==
  { Input(PathNumbered, "title",
          [NoMetadata EXCEPT !.artist = <<"A">>, !.title = <<"b", ":", "c">>], <<>>),
    Input(PathNumbered, "title",
          [NoMetadata EXCEPT !.artist = <<"A", ":", "b">>, !.title = <<"c">>], <<>>) }

Recording(score, title, artist_credit, releases) ==
  [score |-> score, title |-> title, artist_credit |-> artist_credit, releases |-> releases]

Tag(name, count) == [name |-> name, count |-> count]

\* a recording that agrees with the file: Ab / Cd / Ef
RecAgreeing == Recording(JNum(100), <<"E", "f">>, <<<<"A", "b">>>>, <<<<"C", "d">>>>)

\* the same in other casing and spacing, with a lower score and a second release
RecVariant == Recording(JNum(83), <<"e", "f", " ">>, <<<<"a", "b">>>>, <<<<"c", "d">>, <<"X", "y">>>>)

\* the same title with a score of 80
RecModest == Recording(JNum(80), <<"E", "f">>, <<<<"A", "b">>>>, <<<<"C", "d">>>>)

\* scores outside 0..100
RecHuge == Recording(JNum(250), <<"E", "f">>, <<<<"A", "b">>>>, <<<<"C", "d">>>>)

RecNegative == Recording(JNum(-5), <<"G", "h">>, <<<<"I", "j">>>>, <<<<"K", "l">>>>)

\* three recordings of two releases each, the best one last
RecAlbumsA == Recording(JNum(100), <<"E", "f">>, <<<<"A", "b">>>>, <<<<"M", "n">>, <<"O", "p">>>>)

RecAlbumsB == Recording(JNum(90), <<"E", "f">>, <<<<"A", "b">>>>, <<<<"Q", "r">>, <<"S", "t">>>>)

RecAlbumsC == Recording(JNum(60), <<"E", "f">>, <<<<"A", "b">>>>, <<<<"U", "v">>, <<"W", "x">>>>)

RecOther == Recording(JNum(95), <<"G", "h">>, <<<<"G", "h">>>>, <<<<"I", "j">>, <<"K", "l">>>>)

\* "title": null, and numbers where names are expected
RecNullTitle == Recording(JNum(90), PyNone, <<PyNumber>>, <<PyNumber>>)

\* "score": null
RecNullScore == Recording(JNull, <<"E", "f">>, <<<<"A", "b">>>>, <<<<"C", "d">>>>)

\* no title, no artist-credit, no releases, no score
RecBare == Recording(JNum(0), <<>>, <<>>, <<>>)

RecordingBodies ==
  { Body(<<>>, <<>>, <<>>),
    Body(<<RecAgreeing>>, <<>>, <<>>),
    Body(<<RecModest>>, <<>>, <<>>),
    Body(<<RecAlbumsC, RecAlbumsB, RecAlbumsA>>, <<>>, <<>>),
    Body(<<RecHuge, RecNegative>>, <<>>, <<>>),
    Body(<<RecVariant, RecAgreeing>>, <<>>, <<>>),
    Body(<<RecOther, RecVariant, RecAgreeing, RecNullTitle>>, <<>>, <<>>),
    Body(<<RecAgreeing, RecNullTitle>>, <<>>, <<>>),
    Body(<<RecAgreeing, RecNullScore>>, <<>>, <<>>),
    Body(<<RecBare>>, <<>>, <<>>),
    NotADict }

ArtistBodies ==
  { Body(<<>>, <<>>, <<>>),
    Body(<<>>, <<[tags |-> <<Tag(<<"R", "o", "c", "k">>, JNum(5)), Tag(<<"P", "o", "p">>, JNum(0)),
                              Tag(<<"r", "o", "c", "k">>, JNum(30)), Tag(<<"P", "o", "p">>, JNum(9))>>]>>, <<>>),
    Body(<<>>, <<[tags |-> <<Tag(<<"R", "o", "c", "k">>, JNum(1))>>], [tags |-> <<Tag(<<"P", "o", "p">>, JNum(9))>>]>>,
         <<>>),
    Body(<<>>, <<[tags |-> <<Tag(PyNone, JNum(3))>>]>>, <<>>),
    Body(<<>>, <<[tags |-> <<Tag(<<"R", "o", "c", "k">>, JNum(5)), Tag(<<"P", "o", "p">>, JNull)>>]>>, <<>>),
    NotADict }

ReleaseBodies ==
  { Body(<<>>, <<>>, <<>>),
    Body(<<>>, <<>>, <<[date |-> <<"2", "0", "0", "4", "-", "0", "5", "-", "0", "1">>], [date |-> <<"2", "0", "0", "4">>], [date |-> <<"1", "9", "9", "9", "-", "0", "1">>],
                       [date |-> <<"1", "9", "9", "9", "-", "0", "1">>]>>),
    Body(<<>>, <<>>, <<[date |-> PyNone], [date |-> <<>>], [date |-> <<"a", "b", "c", "d">>]>>),
    Body(<<>>, <<>>, <<[date |-> <<"2", "0", "0", "4">>], [date |-> PyNumber]>>),
    NotADict }

Work(relations, disambiguation) ==
  [relations |-> relations, disambiguation |-> disambiguation]

Relation(type, name) == [type |-> type, name |-> name]

WorkBodies ==
  { WorkBody(<<>>),
    WorkBody(<<Work(<<Relation("arranger", <<"X", "y">>), Relation("composer", PyNone),
                      Relation("composer", <<"B", "a", "c", "h">>),
                      Relation("composer", <<"L", "i", "s", "z", "t">>)>>, PyNone),
               Work(<<>>, <<"b", "y", " ", "L", "i", "s", "z", "t">>)>>),
    WorkBody(<<Work(<<>>, <<"a", "r", "r", ".", " ", "b", "y", " ", "J", ".", "S", ".", " ",
                            "B", "a", "c", "h", " ", "(", "1", ")">>),
               Work(<<Relation("composer", <<"B", "a", "c", "h">>)>>, PyNone)>>),
    WorkBody(<<Work(<<>>, <<"b", "y", " ", "e", "a", "r">>), Work(<<>>, PyNumber)>>),
    NotADict }

\* the kinds of the searches
QueryKinds == {"rec", "artist", "release", "work"}

\* every outcome of a search of each kind
PipelineResponses ==
  [kind \in QueryKinds |->
     {Failure} \cup
       {Success(b) : b \in (CASE kind = "rec" -> RecordingBodies
                              [] kind = "artist" -> ArtistBodies
                              [] kind = "release" -> ReleaseBodies
                              [] kind = "work" -> WorkBodies
                              [] OTHER -> {EmptyBody})}]

\* a failure or one well-formed response
ConcurrentResponses ==
  [kind \in QueryKinds |->
     {Failure} \cup
       {Success(b) : b \in (CASE kind = "rec" -> {Body(<<RecAgreeing>>, <<>>, <<>>)}
                              [] kind = "artist" ->
                                   {Body(<<>>,
                                         <<[tags |-> <<Tag(<<"R", "o", "c", "k">>,
                                                           JNum(5))>>]>>,
                                         <<>>)}
                              [] OTHER -> {EmptyBody})}]

(***************************************************************************)
(* Spec: two threads call infer_field concurrently, time passes            *)
(***************************************************************************)
Next ==
  \/ Tick
  \/ \E t \in Threads : Call(t, ConcurrentInputs, MaxCalls)
  \/ \E t \in Threads : EnterRateLimit(t)
  \/ \E t \in Threads : Stamp(t)
  \/ \E t \in Threads : Lookup(t)
  \/ \E t \in Threads : Send(t)
  \/ \E t \in Threads : Receive(t, ConcurrentResponses)
  \/ \E t \in Threads : Store(t)
  \/ \E t \in Threads : Finish(t)
  \/ \E t \in Threads : Return(t)

Spec == Init /\ [][Next]_vars

(***************************************************************************)
(* SpecPipeline: one call of infer_field on a fresh engine, over every     *)
(* input and every response                                                *)
(***************************************************************************)
NextPipeline ==
  \/ Call("t1", PipelineInputs, 1)
  \/ EnterRateLimit("t1")
  \/ Stamp("t1")
  \/ Lookup("t1")
  \/ Send("t1")
  \/ Receive("t1", PipelineResponses)
  \/ Store("t1")
  \/ Finish("t1")

SpecPipeline == Init /\ [][NextPipeline]_vars

(***************************************************************************)
(* SpecLive: the calls of Spec where time passes as the sleeping threads   *)
(* need it, every thread that can take a step is scheduled in the end,     *)
(* time.sleep returns and every request gets its response or its timeout   *)
(***************************************************************************)
\* time.sleep(self.mb_rate_limit - time_since_last) returns: the clock has
\* reached the time the sleeping thread wakes
WakeUp(t) ==
  /\ pc[t] = "stamp"
  /\ now < wake[t]
  /\ now' = wake[t]
  /\ UNCHANGED <<cache, cache_lock, mb_last_request, pc, call, wake, mb_data, result,
                 trail, sends, calls>>
  /\ UNCHANGED history_vars

\* the steps of the thread t from the limiter to the store
SearchStep(t) ==
  \/ EnterRateLimit(t)
  \/ Stamp(t)
  \/ Lookup(t)
  \/ Send(t)
  \/ Receive(t, ConcurrentResponses)
  \/ Store(t)

NextLive ==
  \/ \E t \in Threads : WakeUp(t)
  \/ \E t \in Threads : Call(t, ConcurrentInputs, MaxCalls)
  \/ \E t \in Threads : SearchStep(t)
  \/ \E t \in Threads : Finish(t)
  \/ \E t \in Threads : Return(t)

\* weak fairness of Finish(t), which is enabled exactly when the thread is at
\* the synthesis
FinishIsFair(t) == []<>(pc[t] # "synthesize") \/ []<><<Finish(t)>>_vars

SpecLive ==
  /\ Init
  /\ [][NextLive]_vars
  /\ \A t \in Threads : WF_vars(WakeUp(t)) /\ WF_vars(SearchStep(t)) /\ FinishIsFair(t)

(***************************************************************************)
(* SpecKeys: each of the two threads calls infer_field once on one engine, *)
(* for recording searches of different arguments                           *)
(***************************************************************************)
NextKeys ==
  \/ Tick
  \/ \E t \in Threads : Call(t, KeyInputs, MaxCalls)
  \/ \E t \in Threads : EnterRateLimit(t)
  \/ \E t \in Threads : Stamp(t)
  \/ \E t \in Threads : Lookup(t)
  \/ \E t \in Threads : Send(t)
  \/ \E t \in Threads : Receive(t, ConcurrentResponses)
  \/ \E t \in Threads : Store(t)
  \/ \E t \in Threads : Finish(t)

SpecKeys == Init /\ [][NextKeys]_vars

(***************************************************************************)
(* SpecHistory: actions are recorded in the editing history, and requests  *)
(* undo and redo them; a write to a file succeeds or raises                *)
(***************************************************************************)
\* history.add_action(action)
AddAction(action) ==
  /\ Len(history) < MaxActions
  /\ history' = Append(history, action)
  /\ last_success' = Append(last_success, "none")
  /\ UNCHANGED response
  /\ UNCHANGED engine_vars

\* the part of undo_action and redo_action from the writes on: written are
\* the files whose apply_metadata_to_file returns, the other writes raise;
\* is_undone is set after the writes and before the response is chosen
Restore(action_id, operation, written) ==
  LET action == history[action_id]
      restored == FilesToRestore(action) \cap written
      errors == FilesToRestore(action) \ written
      files_updated == Cardinality(restored)
  IN  /\ history' = [history EXCEPT ![action_id].is_undone = (operation = "undo")]
      /\ response' = RestoreResponse(files_updated, errors)
      /\ last_success' = IF files_updated > 0
                           THEN [last_success EXCEPT ![action_id] = operation]
                           ELSE last_success

\* POST /history/<action_id>/undo
UndoAction(action_id) ==
  /\ LET action == GetAction(history, action_id)
     IN  IF action = <<>>
           THEN /\ response' = NotFound
                /\ UNCHANGED <<history, last_success>>
         ELSE IF action[1].is_undone
           THEN /\ response' = AlreadyUndone
                /\ UNCHANGED <<history, last_success>>
         ELSE \E written \in SUBSET {action[1].files[i] : i \in DOMAIN action[1].files} :
                Restore(action_id, "undo", written)
  /\ UNCHANGED engine_vars

\* POST /history/<action_id>/redo
RedoAction(action_id) ==
  /\ LET action == GetAction(history, action_id)
     IN  IF action = <<>>
           THEN /\ response' = NotFound
                /\ UNCHANGED <<history, last_success>>
         ELSE IF ~action[1].is_undone
           THEN /\ response' = NotUndone
                /\ UNCHANGED <<history, last_success>>
         ELSE \E written \in SUBSET {action[1].files[i] : i \in DOMAIN action[1].files} :
                Restore(action_id, "redo", written)
  /\ UNCHANGED engine_vars

NextHistory ==
  \/ \E action \in RecordedActions : AddAction(action)
  \/ \E action_id \in ActionIds : UndoAction(action_id)
  \/ \E action_id \in ActionIds : RedoAction(action_id)

SpecHistory == Init /\ [][NextHistory]_vars

(***************************************************************************)
(* Properties of one call (checked under SpecPipeline)                     *)
(***************************************************************************)
\* C1: every candidate of a returned list has a final confidence of at least
\* half the threshold of the requested field (70 where the table has none)
C1_ThresholdLaw ==
  \A t \in Threads :
    pc[t] = "returned" =>
      \A i \in 1..Len(result[t].list) :
        2 * result[t].list[i].confidence >= Threshold(call[t].field)

\* a call has returned fewer than five candidates, having had more to choose
\* from: the threshold has turned some away
C1_Witness ==
  \E t \in Threads :
    /\ pc[t] = "returned"
    /\ Len(result[t].list) >= 1
    /\ Len(result[t].list) < Len(call[t].all_candidates)
    /\ Len(call[t].all_candidates) <= 5

\* C2: a returned list is non-increasing in the final, rounded confidence
C2_SortInvariant ==
  \A t \in Threads :
    pc[t] = "returned" =>
      \A i \in 1..(Len(result[t].list) - 1) :
        result[t].list[i].confidence >= result[t].list[i + 1].confidence

\* a call has returned local, external and consensus candidates, of three
\* different confidences, that were synthesized in another order
C2_Witness ==
  \E t \in Threads :
    /\ pc[t] = "returned"
    /\ Len(result[t].list) >= 3
    /\ {"consensus", "musicbrainz"} \subseteq
         {result[t].list[i].source : i \in 1..Len(result[t].list)}
    /\ Cardinality({result[t].list[i].source : i \in 1..Len(result[t].list)}) >= 3
    /\ result[t].list[1].confidence > result[t].list[2].confidence
    /\ result[t].list[2].confidence > result[t].list[3].confidence
    /\ \E i \in 1..(Len(call[t].all_candidates) - 1) :
         call[t].all_candidates[i].confidence < call[t].all_candidates[i + 1].confidence

\* C3: where a local and an external candidate normalize to the same value,
\* the synthesized candidate has at least the greater of their confidences
\* plus 5, and exactly that plus 15 when the two are the only members
C3_ConsensusBoost ==
  \A t \in Threads :
    pc[t] = "returned" =>
      \A k \in 1..Len(call[t].all_candidates) :
        LET c == call[t].all_candidates[k]
            loc == {i \in 1..Len(call[t].local_candidates) :
                      Normalized(call[t].local_candidates[i].value) = Normalized(c.value)}
            ext == {i \in 1..Len(call[t].mb_candidates) :
                      Normalized(call[t].mb_candidates[i].value) = Normalized(c.value)}
            top == Greatest({call[t].local_candidates[i].confidence : i \in loc}
                            \cup {call[t].mb_candidates[i].confidence : i \in ext})
        IN (loc # {} /\ ext # {}) =>
             /\ c.confidence >= top + 50
             /\ (Cardinality(loc) = 1 /\ Cardinality(ext) = 1) => c.confidence = top + 150

\* C6: a call of infer_field never raises, whatever the response
C6_NeverRaises == \A t \in Threads : pc[t] # "raised"

\* C9: a call for the track or the disc never enters the external lookup: it
\* neither waits in the rate limiter nor stamps the time, checks no cache,
\* sends nothing, and the cache and the last-request time stay as they were
C9_NoLookupForTrackAndDisc ==
  \A t \in Threads :
    call[t].field \in {"track", "disc"} =>
      /\ pc[t] \in {"synthesize", "returned", "raised"}
      /\ ~trail[t].slept /\ ~trail[t].stamped /\ ~trail[t].looked /\ ~trail[t].sent
      /\ sends = <<>>
      /\ DOMAIN cache = {}
      /\ mb_last_request = 0

\* a call for the disc has returned although its local candidates were none
\* and the artist and the album are known (any other field asks the external
\* lookup then)
C9_Witness ==
  \E t \in Threads :
    /\ pc[t] = "returned"
    /\ call[t].field = "disc"
    /\ call[t].local_candidates = <<>>
    /\ call[t].es.existing_metadata = KnownAll

\* C10, as the specification states it: for the genre with neither artist nor
\* album known, the gate answers no, the local candidates are none and the
\* call returns the empty list
C10_GateSaysNo ==
  \A t \in Threads :
    (/\ call[t].field = "genre"
     /\ call[t].es.existing_metadata.artist = <<>>
     /\ call[t].es.existing_metadata.album = <<>>
     /\ pc[t] = "returned") =>
      /\ ~call[t].should_query
      /\ call[t].local_candidates = <<>>
      /\ result[t].list = <<>>

\* C10, as the code guarantees it: for the genre with neither artist nor album
\* known, the gate answers yes (there is no local candidate), the local
\* candidates are none and the call returns the empty list
C10_GateSaysYes ==
  \A t \in Threads :
    (/\ call[t].field = "genre"
     /\ call[t].es.existing_metadata.artist = <<>>
     /\ call[t].es.existing_metadata.album = <<>>
     /\ pc[t] = "returned") =>
      /\ call[t].should_query
      /\ call[t].local_candidates = <<>>
      /\ result[t].list = <<>>

\* a call for the genre of a file whose metadata names no artist and no album
\* has returned
C10_Witness ==
  \E t \in Threads :
    /\ pc[t] = "returned"
    /\ call[t].field = "genre"
    /\ call[t].es.existing_metadata.artist = <<>>
    /\ call[t].es.existing_metadata.album = <<>>
    /\ call[t].es.existing_metadata.albumartist # <<>>

\* C13: every confidence of a returned list is a whole number of points from
\* 0 to 100
C13_ConfidenceRange ==
  \A t \in Threads :
    pc[t] = "returned" =>
      \A i \in 1..Len(result[t].list) : result[t].list[i].confidence \in 0..100

\* a returned list holds a candidate whose contextual boost met the cap of 100
C13_Witness ==
  \E t \in Threads :
    /\ pc[t] = "returned"
    /\ \E i \in 1..Len(result[t].list) :
         /\ result[t].list[i].confidence = 100
         /\ Appearances(Lower(result[t].list[i].value), call[t].es) > 1

\* C14: a returned list has at most 5 candidates, and every candidate that
\* meets the threshold and is left out has a final confidence no higher than
\* that of every returned candidate
C14_TopFive ==
  \A t \in Threads :
    pc[t] = "returned" =>
      /\ Len(result[t].list) <= 5
      /\ \A k \in 1..Len(call[t].all_candidates) :
           LET final == [call[t].all_candidates[k] EXCEPT !.confidence =
                           FinalConfidence(call[t].all_candidates[k], call[t].es,
                                           call[t].field)]
           IN 2 * final.confidence >= Threshold(call[t].field) =>
                \/ \E i \in 1..Len(result[t].list) : result[t].list[i] = final
                \/ \A i \in 1..Len(result[t].list) :
                     result[t].list[i].confidence >= final.confidence

\* more than 5 candidates met the threshold, and 5 have been returned
C14_Witness ==
  \E t \in Threads :
    /\ pc[t] = "returned"
    /\ Len(result[t].list) = 5
    /\ Cardinality({k \in 1..Len(call[t].all_candidates) :
                      2 * FinalConfidence(call[t].all_candidates[k], call[t].es,
                                          call[t].field)
                        >= Threshold(call[t].field)}) > 5

C22_DeduplicatedKeepingBest ==
  \A t \in Threads :
    pc[t] # "idle" =>
      /\ \A i, j \in 1..Len(call[t].local_candidates) :
            Normalized(call[t].local_candidates[i].value)
              = Normalized(call[t].local_candidates[j].value) => i = j
      /\ call[t].field = "title" =>
            \A k \in 1..Len(TitleRawCandidates(call[t].es)) :
              CleanTitle(TitleRawCandidates(call[t].es)[k].value) # <<>> =>
                \E i \in 1..Len(call[t].local_candidates) :
                  /\ Normalized(call[t].local_candidates[i].value)
                       = Normalized(CleanTitle(TitleRawCandidates(call[t].es)[k].value))
                  /\ call[t].local_candidates[i].confidence
                       >= TitleRawCandidates(call[t].es)[k].confidence

\* the candidates that went into the synthesis of the call of t
SynthesisInput(t) == call[t].local_candidates \o call[t].mb_candidates

\* C23: the synthesized candidates have pairwise different normalized values,
\* these are exactly the normalized values of the local and the external
\* candidates, and a candidate whose normalized value no other input has is
\* among them as it came
C23_OnePerValue ==
  \A t \in Threads :
    pc[t] = "returned" =>
      /\ \A i, j \in 1..Len(call[t].all_candidates) :
            Normalized(call[t].all_candidates[i].value)
              = Normalized(call[t].all_candidates[j].value) => i = j
      /\ {Normalized(call[t].all_candidates[i].value) :
             i \in 1..Len(call[t].all_candidates)}
           = {Normalized(SynthesisInput(t)[k].value) : k \in 1..Len(SynthesisInput(t))}
      /\ \A k \in 1..Len(SynthesisInput(t)) :
            (\A j \in 1..Len(SynthesisInput(t)) :
               Normalized(SynthesisInput(t)[j].value)
                 = Normalized(SynthesisInput(t)[k].value) => j = k)
            => \E i \in 1..Len(call[t].all_candidates) :
                 call[t].all_candidates[i] = SynthesisInput(t)[k]

\* a synthesis of local and external candidates in which some share a value
\* and an external one stands alone
C23_Witness ==
  \E t \in Threads :
    /\ pc[t] = "returned"
    /\ call[t].local_candidates # <<>>
    /\ Len(call[t].all_candidates) < Len(SynthesisInput(t))
    /\ \E i \in 1..Len(call[t].all_candidates) :
         /\ call[t].all_candidates[i].source = "musicbrainz"
         /\ \E k \in 1..Len(call[t].mb_candidates) :
              call[t].mb_candidates[k] = call[t].all_candidates[i]

\* C24, as the specification states it: a synthesized candidate of source
\* "consensus" comes of candidates of at least two different sources
C24_ConsensusNeedsTwoSources ==
  \A t \in Threads :
    pc[t] = "returned" =>
      \A i \in 1..Len(call[t].all_candidates) :
        call[t].all_candidates[i].source = "consensus" =>
          Cardinality(call[t].all_candidates[i].sources) >= 2

\* the known title of the call of t, or the first title that the title
\* heuristic infers, <<>> when there is none
KnownOrInferredTitle(t) ==
  IF call[t].es.existing_metadata.title # <<>> THEN call[t].es.existing_metadata.title
  ELSE FirstValue(InferTitle(call[t].es))

\* C25, as the specification states it: a call for the title, the artist or
\* the album whose gate said yes sends a recording search for the known
\* artist, or the first artist the artist heuristic infers, and the known or
\* inferred title
C25_RecordingSearchIssued ==
  \A t \in Threads :
    (pc[t] = "returned" /\ call[t].should_query
       /\ call[t].field \in {"title", "artist", "album"}) =>
      /\ trail[t].sent
      /\ sends[1].key =
           CacheKey(Query("rec",
                          IF call[t].es.existing_metadata.artist # <<>>
                            THEN call[t].es.existing_metadata.artist
                            ELSE FirstValue(InferArtist(call[t].es)),
                          KnownOrInferredTitle(t)))

\* the artist the code searches with: the known one, or for the artist field
\* the first local candidate, <<>> when there is none
SearchArtist(t) ==
  IF call[t].es.existing_metadata.artist # <<>> THEN call[t].es.existing_metadata.artist
  ELSE IF call[t].field = "artist" THEN FirstValue(call[t].local_candidates)
  ELSE <<>>

\* C25, as the code guarantees it: such a call sends a request exactly when
\* it has an artist, the known one or for the artist field the first local
\* candidate, and a known or inferred title, neither of them empty, and the
\* request is the recording search for the two
C25_RecordingSearchWhenKeyed ==
  \A t \in Threads :
    (pc[t] = "returned" /\ call[t].should_query
       /\ call[t].field \in {"title", "artist", "album"}) =>
      /\ trail[t].sent <=> (SearchArtist(t) # <<>> /\ KnownOrInferredTitle(t) # <<>>)
      /\ trail[t].sent =>
           sends[1].key = CacheKey(Query("rec", SearchArtist(t), KnownOrInferredTitle(t)))

\* a call for the artist, none known, has searched with the artist and the
\* title it inferred
C25_Witness ==
  \E t \in Threads :
    /\ pc[t] = "returned"
    /\ call[t].field = "artist"
    /\ call[t].es.existing_metadata.artist = <<>>
    /\ call[t].es.existing_metadata.title = <<>>
    /\ trail[t].sent
    /\ sends[1].key = CacheKey(Query("rec", call[t].local_candidates[1].value,
                                     InferTitle(call[t].es)[1].value))

\* the file names the call of t considers: the siblings it was given, which
\* the sibling count identifies among the lists of the inputs, without the
\* current file, and the current file
ConsideredFilenames(t) ==
  SelectSeq(CHOOSE siblings \in SiblingLists : Len(siblings) = call[t].es.sibling_count,
            LAMBDA n : n # call[t].es.filename)
    \o <<call[t].es.filename>>

\* C26, as the specification states it: track_pattern is "prefix_number"
\* exactly when at least 70% of the file names considered, the current one
\* among them, start with a track number (stated for the calls that were
\* given siblings)
C26_SeventyPercentOfAll ==
  \A t \in Threads :
    (pc[t] # "idle" /\ call[t].es.sibling_count > 0) =>
      (call[t].es.track_pattern = "prefix_number"
         <=> 10 * Cardinality({i \in 1..Len(ConsideredFilenames(t)) :
                                 HasTrackPrefix(ConsideredFilenames(t)[i])})
               >= 7 * Len(ConsideredFilenames(t)))

\* C28, as the specification states it: every candidate a call returns has a
\* value that is not empty after trimming
C28_NoEmptyValue ==
  \A t \in Threads :
    pc[t] = "returned" =>
      \A i \in 1..Len(result[t].list) : Strip(result[t].list[i].value) # <<>>

C4_RequestsSpaced ==
  \A i, j \in 1..Len(sends) :
    i < j => sends[j].at - sends[i].at >= MUSICBRAINZ_RATE_LIMIT

\* C5, as the specification states it: two network requests of the same query
\* are never sent within the cache duration of each other
C5_OneRequestPerQuery ==
  \A i, j \in 1..Len(sends) :
    (i < j /\ sends[i].key = sends[j].key) =>
      sends[j].at - sends[i].at >= INFERENCE_CACHE_DURATION

\* C5, as the code guarantees it: a call that checks the cache while it holds
\* a response to its query stored less than the cache duration ago sends no
\* network request
C5_StoredResponseAnswers ==
  [][\A t \in Threads :
       (/\ pc[t] = "lookup"
        /\ CacheKey(call[t].query) \in DOMAIN cache
        /\ now - cache[CacheKey(call[t].query)].time < INFERENCE_CACHE_DURATION) =>
         pc'[t] # "send"]_vars

\* the second of two calls with the same query has returned from the cache,
\* and one network request has been sent for the two
C5_Witness ==
  \E t \in Threads :
    /\ pc[t] = "returned"
    /\ trail[t].hit
    /\ ~trail[t].sent
    /\ calls = 2
    /\ Len(sends) = 1
    /\ sends[1].key = CacheKey(call[t].query)

\* C7, as the specification states it: at no time are two network requests in flight
C7_OneRequestInFlight == Cardinality({t \in Threads : pc[t] = "in_flight"}) <= 1

\* C7, as the code guarantees it: at no time are two calls inside the rate
\* limiter (the sleep and the update of the last-request time); the lock is
\* held there and nowhere else across a step
C7_LimiterSerialized ==
  /\ Cardinality({t \in Threads : pc[t] = "stamp"}) <= 1
  /\ \A t \in Threads : pc[t] = "stamp" <=> cache_lock = t

\* one call is inside the rate limiter and holds the lock, the other one has
\* been made and waits for the lock
C7_Witness ==
  \E t, u \in Threads :
    /\ pc[t] = "stamp"
    /\ cache_lock = t
    /\ pc[u] = "rate_limit"

\* C16: every step of a thread that reads or writes the cache or the
\* last-request timestamp is taken with the lock: the limiter reads the
\* timestamp in the step that takes the free lock and writes it while the
\* thread holds the lock, and the cache check and the store, each one "with
\* self.cache_lock:" block, are taken only when no other thread holds the
\* lock; no other step of any thread changes the cache or the timestamp
C16_AccessUnderLock ==
  [][\A t \in Threads :
       /\ (pc[t] = "rate_limit" /\ pc'[t] # "rate_limit") =>
            cache_lock = "free" /\ cache_lock' = t
       /\ (pc[t] = "stamp" /\ pc'[t] # "stamp") => cache_lock = t
       /\ (pc[t] \in {"lookup", "store"} /\ pc'[t] # pc[t]) =>
            cache_lock = "free" /\ cache_lock' = "free"
       /\ (pc'[t] = pc[t] /\ cache' # cache) =>
            \E u \in Threads : pc[u] = "store" /\ pc'[u] # "store"
       /\ (pc'[t] = pc[t] /\ mb_last_request' # mb_last_request) =>
            \E u \in Threads : pc[u] = "stamp" /\ pc'[u] # "stamp"]_vars

\* a thread holds the lock in the limiter while the other one waits to store
\* its response
C16_Witness ==
  \E t, u \in Threads :
    /\ cache_lock = t
    /\ pc[t] = "stamp"
    /\ pc[u] = "store"

\* C17: a thread whose request is about to be sent or is in flight, or whose
\* response waits to be stored, does not hold the lock
C17_NoLockWhileInFlight ==
  \A t \in Threads : pc[t] \in {"send", "in_flight", "store"} => cache_lock # t

\* a request is in flight while the other thread holds the lock in the limiter
C17_Witness ==
  \E t, u \in Threads :
    /\ pc[t] = "in_flight"
    /\ trail[t].looked
    /\ cache_lock = u
    /\ u # t

\* C18: every stamp of the last-request timestamp is at least the minimum
\* interval later than the stamp before it, whichever threads made the two
C18_StampsSpaced ==
  [][\A t \in Threads :
       (pc[t] = "stamp" /\ pc'[t] # "stamp") =>
         mb_last_request' - mb_last_request >= MUSICBRAINZ_RATE_LIMIT]_vars

\* two threads have stamped, the second after it slept out the rest of the
\* interval with the lock
C18_Witness ==
  \E t, u \in Threads :
    /\ t # u
    /\ trail[t].stamped
    /\ trail[u].stamped
    /\ trail[u].slept
    /\ mb_last_request = ClockStart + MUSICBRAINZ_RATE_LIMIT

\* C19: the cache check answers from the cache only when the entry is younger
\* than the duration; when the entry has reached the duration the check goes
\* on to the request; and the store puts the response and the time of the
\* store in the place of the entry
C19_ExpiryAndReplacement ==
  [][\A t \in Threads :
       /\ (pc[t] = "lookup" /\ pc'[t] = "synthesize") =>
            /\ CacheKey(call[t].query) \in DOMAIN cache
            /\ now - cache[CacheKey(call[t].query)].time < INFERENCE_CACHE_DURATION
       /\ (/\ pc[t] = "lookup" /\ pc'[t] # "lookup"
           /\ CacheKey(call[t].query) \in DOMAIN cache
           /\ now - cache[CacheKey(call[t].query)].time >= INFERENCE_CACHE_DURATION) =>
            pc'[t] = "send"
       /\ (pc[t] = "store" /\ pc'[t] # "store") =>
            cache'[CacheKey(call[t].query)] = [data |-> mb_data[t], time |-> now]]_vars

\* an entry stored at the start was found as old as the duration, the request
\* was sent again and its response has taken the place of the entry
C19_Witness ==
  \E t \in Threads :
    /\ trail[t].stored
    /\ Len(sends) = 2
    /\ sends[1].key = sends[2].key
    /\ sends[2].thread = t
    /\ sends[2].at - sends[1].at = INFERENCE_CACHE_DURATION
    /\ cache[sends[2].key].time = sends[2].at
    /\ cache[sends[2].key].data # EmptyBody

\* C20: the step in which a request fails leaves the cache as it was and
\* gives the query no candidate, and a cache check that finds no fresh entry
\* for its key goes on to the request
C20_FailureNotCached ==
  [][\A t \in Threads :
       /\ (pc[t] = "in_flight" /\ pc'[t] = "synthesize") =>
            /\ cache' = cache
            /\ call'[t].mb_candidates = <<>>
       /\ (/\ pc[t] = "lookup" /\ pc'[t] # "lookup"
           /\ CacheKey(call[t].query) \notin DOMAIN cache) =>
            pc'[t] = "send"]_vars

\* a request has failed, the cache holds nothing for its key, and the same
\* request has been sent a second time
C20_Witness ==
  \E t \in Threads :
    /\ pc[t] \in {"synthesize", "returned"}
    /\ trail[t].sent
    /\ ~trail[t].stored
    /\ call[t].mb_candidates = <<>>
    /\ CacheKey(call[t].query) \notin DOMAIN cache
    /\ Len(sends) = 2
    /\ sends[1].thread = t
    /\ sends[1].key = sends[2].key
    /\ sends[2].at > sends[1].at

\* C21: a call that has stamped the limiter does not come to the limiter
\* again, a call that has sent its request does not come to the cache check
\* or to urlopen again, and a request in flight ends in the store or, failed,
\* in the synthesis
C21_OneRequestPerCall ==
  [][\A t \in Threads :
       /\ trail[t].stamped => pc'[t] \notin {"rate_limit", "stamp"}
       /\ trail[t].sent => pc'[t] \notin {"lookup", "send"}
       /\ pc[t] = "in_flight" => pc'[t] \in {"in_flight", "store", "synthesize"}]_vars

\* a call has returned after its one request failed
C21_Witness ==
  \E t \in Threads :
    /\ pc[t] = "returned"
    /\ trail[t].stamped
    /\ trail[t].sent
    /\ ~trail[t].stored
    /\ Cardinality({i \in 1..Len(sends) : sends[i].thread = t}) = 1

C8_HitSkipsLimiter ==
  \A t \in Threads :
    trail[t].hit => ~trail[t].slept /\ ~trail[t].stamped /\ ~trail[t].sent

(***************************************************************************)
(* Properties of the cache keys (checked under SpecKeys)                   *)
(***************************************************************************)
\* C27, as the specification states it: a call answered from the cache has
\* the query of the call that stored the answer, which on this engine is the
\* call of the other thread
C27_HitAnswersSameQuery ==
  \A t, u \in Threads :
    (t # u /\ trail[t].hit) => call[u].query = call[t].query

(***************************************************************************)
(* Termination of the calls (checked under SpecLive)                       *)
(***************************************************************************)
\* C29: a thread that holds the lock is in the limiter and nowhere else, so
\* it takes the lock at no point where it holds it, and every call that has
\* begun returns in the end
C29_EveryCallReturns ==
  /\ [](\A t \in Threads : cache_lock = t => pc[t] = "stamp")
  /\ \A t \in Threads : (pc[t] # "idle") ~> (pc[t] \in {"returned", "raised"})

\* both threads have returned, one of them after it waited for the lock and
\* slept in the limiter
C29_Witness ==
  /\ \A t \in Threads : pc[t] = "returned"
  /\ \E t \in Threads : trail[t].slept /\ trail[t].sent

(***************************************************************************)
(* Properties of the editing history (checked under SpecHistory)           *)
(***************************************************************************)
\* C30, as the specification states it: the is_undone flag of an action is
\* true exactly if the last operation of it that restored a file was an
\* undo, since a request that ends in the error response for no restored
\* file leaves the flag as it was
C30_FlagFollowsSuccess ==
  \A action_id \in DOMAIN history :
    history[action_id].is_undone <=> last_success[action_id] = "undo"

====
